---- MODULE Spec2Model ----
(***************************************************************************)
(* A model of the pyspur workflow editor front end:                        *)
(*   - the handle rename coordinator (OutputDisplayNode.handleSchemaKeyEdit)*)
(*   - the node sidebar's edit path and its debounced store commit          *)
(*     (NodeSidebar.handleInputChange / debouncedDispatch)                  *)
(*   - the node factory (createNode), over an explicit object heap         *)
(*   - the workflow serializer and its debounced save (useSaveWorkflow)    *)
(*   - the sidebar's config form: widget dispatch, the key each control    *)
(*     edits, and the few-shot example list (NodeSidebar.renderField)      *)
(* Strings are sequences of one-character strings, so that the regular     *)
(* expression work of the rename is computed and not assumed.              *)
(***************************************************************************)
EXTENDS Integers, Sequences, FiniteSets, TLC

(***************************************************************************)
(* Bounds of the model                                                     *)
(***************************************************************************)
MaxOps == 2
MaxSliderValue == 1
TickMs == 150
MaxChanges == 2
SaveTickMs == 1000

(***************************************************************************)
(* Program constants                                                       *)
(***************************************************************************)
DebounceWaitMs == 300
SaveDelayMs == 2000

(***************************************************************************)
(* Strings                                                                 *)
(***************************************************************************)
EmptyStr == << >>

IsSpace(c) == c = " "

Max(S) == CHOOSE x \in S : \A y \in S : y <= x

\* String.prototype.trim
RECURSIVE TrimLeft(_)
TrimLeft(s) ==
  IF s = EmptyStr THEN EmptyStr
  ELSE IF IsSpace(Head(s)) THEN TrimLeft(Tail(s)) ELSE s

RECURSIVE TrimRight(_)
TrimRight(s) ==
  IF s = EmptyStr THEN EmptyStr
  ELSE IF IsSpace(s[Len(s)]) THEN TrimRight(SubSeq(s, 1, Len(s) - 1)) ELSE s

Trim(s) == TrimRight(TrimLeft(s))

\* newKey.replace(/\s+/g, '_'): every maximal run of whitespace becomes one "_"
RECURSIVE NormalizeFrom(_, _)
NormalizeFrom(s, i) ==
  IF i > Len(s) THEN EmptyStr
  ELSE IF IsSpace(s[i])
       THEN (IF i > 1 /\ IsSpace(s[i - 1]) THEN EmptyStr ELSE <<"_">>)
            \o NormalizeFrom(s, i + 1)
       ELSE <<s[i]>> \o NormalizeFrom(s, i + 1)

NormalizeKey(s) == NormalizeFrom(s, 1)

\* The part of the pattern that is the interpolated, unescaped oldKey.  In a
\* JavaScript regular expression "." matches any character and "$" asserts
\* the end of the input; every other character of the model's alphabet is a
\* literal.  The position after the match starting at p, or 0.
RECURSIVE KeyEnd(_, _, _, _)
KeyEnd(msg, p, key, j) ==
  IF j > Len(key) THEN p
  ELSE IF key[j] = "$"
       THEN (IF p = Len(msg) + 1 THEN KeyEnd(msg, p, key, j + 1) ELSE 0)
  ELSE IF p > Len(msg) THEN 0
  ELSE IF key[j] = "." \/ key[j] = msg[p]
       THEN KeyEnd(msg, p + 1, key, j + 1)
  ELSE 0

\* The first position at or after p that holds no whitespace
RECURSIVE SkipSpaces(_, _)
SkipSpaces(msg, p) ==
  IF p <= Len(msg) /\ IsSpace(msg[p]) THEN SkipSpaces(msg, p + 1) ELSE p

\* Whether "}}" stands at q, after the trailing \s* has taken all whitespace
ClosesAt(msg, e) ==
  LET q == SkipSpaces(msg, e)
  IN  q + 1 <= Len(msg) /\ msg[q] = "}" /\ msg[q + 1] = "}"

\* new RegExp(`{{\\s*${oldKey}\\s*}}`) tried at position i: the position
\* after the match, or 0.  The leading \s* is greedy and backtracks.
MatchEnd(msg, i, key) ==
  IF ~(i + 1 <= Len(msg) /\ msg[i] = "{" /\ msg[i + 1] = "{") THEN 0
  ELSE LET starts == { p \in (i + 2)..SkipSpaces(msg, i + 2) :
                         /\ KeyEnd(msg, p, key, 1) # 0
                         /\ ClosesAt(msg, KeyEnd(msg, p, key, 1)) }
       IN  IF starts = {} THEN 0
           ELSE SkipSpaces(msg, KeyEnd(msg, Max(starts), key, 1)) + 2

\* The replacement string of String.prototype.replace: "$$" inserts one "$"
RECURSIVE ExpandReplacement(_)
ExpandReplacement(r) ==
  IF r = EmptyStr THEN EmptyStr
  ELSE IF Len(r) >= 2 /\ r[1] = "$" /\ r[2] = "$"
       THEN <<"$">> \o ExpandReplacement(SubSeq(r, 3, Len(r)))
  ELSE <<r[1]>> \o ExpandReplacement(Tail(r))

\* message.replace(regex, replacement) with the g flag
RECURSIVE ReplaceFrom(_, _, _, _)
ReplaceFrom(msg, i, key, repl) ==
  IF i > Len(msg) THEN EmptyStr
  ELSE LET e == MatchEnd(msg, i, key)
       IN  IF e # 0 THEN ExpandReplacement(repl) \o ReplaceFrom(msg, e, key, repl)
           ELSE <<msg[i]>> \o ReplaceFrom(msg, i + 1, key, repl)

Placeholder(key) == <<"{", "{">> \o key \o <<"}", "}">>

updateMessageVariables(message, oldKey, newKey) ==
  IF message = EmptyStr THEN message
  ELSE ReplaceFrom(message, 1, oldKey, Placeholder(newKey))

(***************************************************************************)
(* The store: nodes (their data.config), edges                             *)
(***************************************************************************)
NodeIds == {"n0", "n1"}
NoNode == "none"
NoField == <<"null">>
SchemaTypes == {"input_schema", "output_schema"}
SliderValues == 0..MaxSliderValue
ModelNames == {"m1", "m2"}

\* What the user may type into the rename input
TypedPool ==
  { EmptyStr, <<" ", " ">>, <<"b">>, <<"c", " ", "$">>, <<".">> }

EmptySchema == [k \in {} |-> "str"]

Cfg(is, os, sm, um, tp, t, m) ==
  [input_schema |-> is, output_schema |-> os, system_message |-> sm,
   user_message |-> um, task_prompt |-> tp, temperature |-> t, model |-> m]

InitNodes ==
  [n \in NodeIds |->
     IF n = "n0"
     THEN [config |-> Cfg(EmptySchema, [k \in {<<"o">>} |-> "str"],
                          EmptyStr, EmptyStr, EmptyStr, 0, "m1")]
     ELSE [config |-> Cfg([k \in {<<"a">>, <<"b">>} |->
                              IF k = <<"a">> THEN "str" ELSE "int"],
                          EmptySchema,
                          <<"{", "{", " ", "a", " ", "}", "}", "{", "{", "b", "}", "}">>,
                          <<"x", "{", "{", "a", "}", "}">>,
                          <<"{", "{", "a", "}", "}">>,
                          0, "m1")]]

InitEdges ==
  << [source |-> "n0", sourceHandle |-> <<"o">>, target |-> "n1", targetHandle |-> <<"a">>],
     [source |-> "n0", sourceHandle |-> <<"o">>, target |-> "n1", targetHandle |-> <<"b">>] >>

VARIABLES
  nodes,          \* state.flow.nodes: id -> [config]
  edges,          \* state.flow.edges
  inflight,       \* the edge action a running handleSchemaKeyEdit has yet to dispatch
  editingField,   \* per node component: the key whose rename input is open
  nodeID,         \* the node the sidebar shows
  dynamicModel,   \* the sidebar's local copy of the config
  pending,        \* debouncedDispatch has a call waiting
  pendingArgs,    \* its latest arguments (id, updatedModel)
  elapsedMs,      \* time since debouncedDispatch was last called
  orphans,        \* calls waiting in the debounce of sidebars that have unmounted
  last,           \* history: the last operation and its arguments
  count           \* history: counters of operations and commits

storeVars == <<nodes, edges, inflight, editingField, nodeID, dynamicModel,
               pending, pendingArgs, elapsedMs, orphans, last, count>>

(***************************************************************************)
(* Store update contracts (flowSlice reducers)                             *)
(***************************************************************************)
\* updateNodeData({id, data: {config}}): merges data into the node's data by key
updateNodeData(ns, id, config) == [ns EXCEPT ![id].config = config]

\* updateEdgesOnHandleRename({nodeId, oldHandleId, newHandleId, schemaType})
RepointEdge(e, nodeId, oldHandleId, newHandleId, schemaType) ==
  IF schemaType = "input_schema" /\ e.target = nodeId /\ e.targetHandle = oldHandleId
  THEN [e EXCEPT !.targetHandle = newHandleId]
  ELSE IF schemaType = "output_schema" /\ e.source = nodeId /\ e.sourceHandle = oldHandleId
  THEN [e EXCEPT !.sourceHandle = newHandleId]
  ELSE e

updateEdgesOnHandleRename(es, nodeId, oldHandleId, newHandleId, schemaType) ==
  [i \in DOMAIN es |-> RepointEdge(es[i], nodeId, oldHandleId, newHandleId, schemaType)]

(***************************************************************************)
(* handleSchemaKeyEdit                                                     *)
(***************************************************************************)
\* oldKey === newKey || !newKey.trim(), on the normalised key
IsNoopRename(oldKey, newKey) == oldKey = newKey \/ Trim(newKey) = EmptyStr

\* a variant of the rename that keeps the entry already stored under newKey
RenamedSchemaKeepExisting(schema, oldKey, newKey) ==
  [k \in (DOMAIN schema \cup {newKey}) \ {oldKey} |->
     IF k \in DOMAIN schema THEN schema[k] ELSE schema[oldKey]]

\* { ...schema, [newKey]: schema[oldKey] } and then delete updatedSchema[oldKey]
RenamedSchema(schema, oldKey, newKey) ==
  [k \in (DOMAIN schema \cup {newKey}) \ {oldKey} |->
     IF k = newKey THEN schema[oldKey] ELSE schema[k]]

\* updatedConfig
RenamedConfig(config, oldKey, newKey, schemaType) ==
  LET withSchema == [config EXCEPT ![schemaType] =
                       RenamedSchema(config[schemaType], oldKey, newKey)]
  IN  IF schemaType = "input_schema"
      THEN [withSchema EXCEPT
              !.system_message = updateMessageVariables(@, oldKey, newKey),
              !.user_message = updateMessageVariables(@, oldKey, newKey)]
      ELSE withSchema

NoCall == [op |-> "init", id |-> NoNode, old |-> EmptyStr, typed |-> EmptyStr,
           new |-> EmptyStr, schemaType |-> "", field |-> "", value |-> 0,
           config |-> InitNodes["n0"].config, edges |-> << >>]

Idle == inflight = NoCall

\* the sidebar's useEffect: a commit to the node it shows reloads the local model
SyncModel(id, config, model) == IF id = nodeID THEN config ELSE model

(***************************************************************************)
(* handleInputChange and debouncedDispatch                                 *)
(***************************************************************************)
NoArgs == [id |-> NoNode, model |-> InitNodes["n0"].config]

\* { ...dynamicModel, [key]: value }
UpdatedModel(model, key, value) == [model EXCEPT ![key] = value]

\* a variant of the edit path in which every edit waits for the debounce
AlwaysDebounced(isSlider) == TRUE

\* a variant of the debounce that keeps the arguments of the first call
KeepFirstArgs(waiting, oldArgs, newArgs) == IF waiting THEN oldArgs ELSE newArgs

\* if (isSlider) debouncedDispatch(...) else dispatch(...)
IsDebounced(isSlider) == isSlider

\* debounce keeps the arguments of the latest call (lastArgs = args)
DebounceArgs(waiting, oldArgs, newArgs) == newArgs

\* a sequence without its i-th element
RemoveAt(s, i) == SubSeq(s, 1, i - 1) \o SubSeq(s, i + 1, Len(s))

\* the trailing edge: the wait has passed since the last call
TimerExpired(elapsed) == elapsed >= DebounceWaitMs

\* no slider edit made yet
NoValue == -1

InitCount == [ops |-> 0, commits |-> 0, debounced |-> 0, bursts |-> 0,
              burstLen |-> 0, burstSame |-> TRUE, sliderId |-> NoNode,
              sliderValue |-> 0, sliderLatest |-> [n \in NodeIds |-> NoValue]]

InitStore ==
  /\ nodes = InitNodes
  /\ edges = InitEdges
  /\ inflight = NoCall
  /\ editingField = [n \in NodeIds |-> NoField]
  /\ nodeID = NoNode
  /\ dynamicModel = NoArgs.model
  /\ pending = FALSE
  /\ pendingArgs = NoArgs
  /\ elapsedMs = 0
  /\ orphans = << >>
  /\ last = NoCall
  /\ count = InitCount

\* setSelectedNode({nodeId}) and the sidebar's useEffect on nodeID
SelectNode(n) ==
  /\ Idle
  /\ n # nodeID
  /\ nodeID' = n
  /\ dynamicModel' = nodes[n].config
  /\ UNCHANGED <<nodes, edges, inflight, editingField, pending, pendingArgs,
                 elapsedMs, orphans, last, count>>

\* the close button: setSelectedNode({nodeId: null}); the sidebar unmounts.
\* The component has no cleanup for debouncedDispatch: a waiting call stays
\* on its timer, and the next sidebar to mount makes a debounce of its own.
CloseSidebar ==
  /\ Idle
  /\ nodeID \in NodeIds
  /\ nodeID' = NoNode
  /\ dynamicModel' = NoArgs.model
  /\ orphans' = IF pending
                THEN Append(orphans, [id |-> pendingArgs.id,
                                      model |-> pendingArgs.model,
                                      elapsedMs |-> elapsedMs])
                ELSE orphans
  /\ pending' = FALSE
  /\ pendingArgs' = NoArgs
  /\ elapsedMs' = 0
  /\ UNCHANGED <<nodes, edges, inflight, editingField, last, count>>

handleInputChange(key, value, isSlider) ==
  /\ Idle
  /\ nodeID \in NodeIds
  /\ count.ops < MaxOps
  /\ LET updatedModel == UpdatedModel(dynamicModel, key, value)
     IN  IF IsDebounced(isSlider)
         THEN /\ dynamicModel' = updatedModel
              /\ pending' = TRUE
              /\ pendingArgs' = DebounceArgs(pending, pendingArgs,
                                             [id |-> nodeID, model |-> updatedModel])
              /\ elapsedMs' = 0
              /\ count' = [count EXCEPT !.ops = @ + 1,
                                        !.bursts = IF pending THEN @ ELSE @ + 1,
                                        !.burstLen = IF pending THEN @ + 1 ELSE 1,
                                        !.burstSame = IF pending
                                                      THEN @ /\ count.sliderId = nodeID
                                                      ELSE TRUE,
                                        !.sliderId = nodeID,
                                        !.sliderValue = value,
                                        !.sliderLatest[nodeID] = value]
              /\ UNCHANGED nodes
         ELSE /\ nodes' = updateNodeData(nodes, nodeID, updatedModel)
              /\ dynamicModel' = SyncModel(nodeID, updatedModel, updatedModel)
              /\ count' = [count EXCEPT !.ops = @ + 1, !.commits = @ + 1]
              /\ UNCHANGED <<pending, pendingArgs, elapsedMs>>
  /\ last' = [NoCall EXCEPT !.op = IF isSlider THEN "slider" ELSE "edit",
                            !.id = nodeID, !.field = key, !.value = value]
  /\ UNCHANGED <<edges, inflight, editingField, nodeID, orphans>>

\* <Slider onChange={(newValue) => handleInputChange(finalPath, newValue, true)}>
SliderEdit == \E v \in SliderValues : handleInputChange("temperature", v, TRUE)

\* <Textarea onChange={(e) => handleInputChange(key, e.target.value)}>
FieldEdit == \E m \in ModelNames : handleInputChange("model", m, FALSE)

\* time passes while a debounce timer runs; a timer that has expired fires
\* before time moves on
Tick ==
  /\ Idle
  /\ pending \/ orphans # << >>
  /\ pending => ~TimerExpired(elapsedMs)
  /\ \A i \in 1..Len(orphans) : ~TimerExpired(orphans[i].elapsedMs)
  /\ elapsedMs' = IF pending THEN elapsedMs + TickMs ELSE elapsedMs
  /\ orphans' = [i \in 1..Len(orphans) |->
                  [orphans[i] EXCEPT !.elapsedMs = @ + TickMs]]
  /\ UNCHANGED <<nodes, edges, inflight, editingField, nodeID, dynamicModel,
                 pending, pendingArgs, last, count>>

\* the debounce timer fires: dispatch(updateNodeData({id, data: {config}}))
DebounceFire ==
  /\ Idle
  /\ pending
  /\ TimerExpired(elapsedMs)
  /\ nodes' = updateNodeData(nodes, pendingArgs.id, pendingArgs.model)
  /\ dynamicModel' = SyncModel(pendingArgs.id, pendingArgs.model, dynamicModel)
  /\ pending' = FALSE
  /\ pendingArgs' = NoArgs
  /\ elapsedMs' = 0
  /\ count' = [count EXCEPT !.commits = @ + 1, !.debounced = @ + 1]
  /\ last' = [NoCall EXCEPT !.op = "fire", !.id = pendingArgs.id]
  /\ UNCHANGED <<edges, inflight, editingField, nodeID, orphans>>

\* the timer of an unmounted sidebar's debounce fires: the same dispatch
OrphanFire ==
  \E i \in 1..Len(orphans) :
    /\ Idle
    /\ TimerExpired(orphans[i].elapsedMs)
    /\ nodes' = updateNodeData(nodes, orphans[i].id, orphans[i].model)
    /\ dynamicModel' = SyncModel(orphans[i].id, orphans[i].model, dynamicModel)
    /\ orphans' = RemoveAt(orphans, i)
    /\ count' = [count EXCEPT !.commits = @ + 1, !.debounced = @ + 1]
    /\ last' = [NoCall EXCEPT !.op = "orphanFire", !.id = orphans[i].id]
    /\ UNCHANGED <<edges, inflight, editingField, nodeID, pending, pendingArgs,
                   elapsedMs>>

(***************************************************************************)
(* The rename input of a handle row                                        *)
(***************************************************************************)
\* onClick={() => setEditingField(keyName)}
StartEditing(n, key) ==
  /\ Idle
  /\ count.ops < MaxOps
  /\ \A m \in NodeIds : editingField[m] = NoField
  /\ key \in DOMAIN nodes[n].config.input_schema
               \cup DOMAIN nodes[n].config.output_schema
  /\ editingField' = [editingField EXCEPT ![n] = key]
  /\ UNCHANGED <<nodes, edges, inflight, nodeID, dynamicModel, pending,
                 pendingArgs, elapsedMs, orphans, last, count>>

\* onKeyDown Escape: setEditingField(null)
CancelEditing(n) ==
  /\ Idle
  /\ editingField[n] # NoField
  /\ editingField' = [editingField EXCEPT ![n] = NoField]
  /\ UNCHANGED <<nodes, edges, inflight, nodeID, dynamicModel, pending,
                 pendingArgs, elapsedMs, orphans, last, count>>

\* handleSchemaKeyEdit(oldKey, newKey, schemaType), on blur or Enter: the
\* early return, or the first dispatch.  The store notifies its subscribers
\* at the end of every dispatch, so the state between the handler's two
\* dispatches is a state of the store; no other event runs in between.
handleSchemaKeyEdit(n, oldKey, typed, schemaType) ==
  /\ Idle
  /\ editingField[n] = oldKey
  /\ oldKey \in DOMAIN nodes[n].config[schemaType]
  /\ LET newKey == NormalizeKey(typed)
         call == [NoCall EXCEPT !.id = n, !.old = oldKey, !.typed = typed,
                                !.new = newKey, !.schemaType = schemaType]
     IN  IF IsNoopRename(oldKey, newKey)
         THEN /\ editingField' = [editingField EXCEPT ![n] = NoField]
              /\ last' = [call EXCEPT !.op = "renameNoop"]
              /\ count' = [count EXCEPT !.ops = @ + 1]
              /\ UNCHANGED <<nodes, inflight>>
         ELSE /\ nodes' = updateNodeData(nodes, n,
                            RenamedConfig(nodes[n].config, oldKey, newKey, schemaType))
              /\ inflight' = [call EXCEPT !.op = "rename",
                                          !.config = nodes[n].config,
                                          !.edges = edges]
              /\ last' = [call EXCEPT !.op = "renameConfig"]
              /\ count' = [count EXCEPT !.ops = @ + 1, !.commits = @ + 1]
              /\ UNCHANGED editingField
  /\ UNCHANGED <<edges, nodeID, dynamicModel, pending, pendingArgs, elapsedMs,
                 orphans>>

\* the rest of handleSchemaKeyEdit: the second dispatch, setEditingField(null)
handleSchemaKeyEditEdges ==
  /\ ~Idle
  /\ edges' = updateEdgesOnHandleRename(edges, inflight.id, inflight.old,
                                        inflight.new, inflight.schemaType)
  /\ editingField' = [editingField EXCEPT ![inflight.id] = NoField]
  /\ dynamicModel' = SyncModel(inflight.id, nodes[inflight.id].config, dynamicModel)
  /\ inflight' = NoCall
  /\ last' = [inflight EXCEPT !.config = NoCall.config, !.edges = NoCall.edges]
  /\ UNCHANGED <<nodes, nodeID, pending, pendingArgs, elapsedMs, orphans, count>>

(***************************************************************************)
(* JavaScript values for the node factory.  A tree is a value written out: *)
(* P(s) a primitive, O(f) an object with the fields of f.  On the heap an  *)
(* object has an address, so that two references to one object differ from *)
(* two equal copies of it.                                                 *)
(***************************************************************************)
MaxMutations == 1

NoFields == [f \in {} |-> ""]

P(s) == [t |-> "p", p |-> s, o |-> NoFields]
O(f) == [t |-> "o", p |-> "", o |-> f]

\* tree?.[field]: undefined on a primitive and on a missing field
TreeGet(tree, field) ==
  IF tree.t = "o" /\ field \in DOMAIN tree.o THEN tree.o[field] ELSE P("undefined")

Prim(s) == [ref |-> 0, prim |-> s]
Ref(a) == [ref |-> a, prim |-> ""]
Undefined == Prim("undefined")
Null == Prim("null")
EmptyObject == [f \in {} |-> Undefined]

\* ToBoolean
Truthy(v) == v.ref # 0 \/ v.prim \notin {"undefined", "null", "", "0", "false"}

\* v?.[field]: undefined on a primitive and on a missing field
Get(h, v, field) ==
  IF v.ref = 0 THEN Undefined
  ELSE IF field \in DOMAIN h[v.ref] THEN h[v.ref][field] ELSE Undefined

\* the own fields a spread copies: none of undefined
FieldsOf(h, v) == IF v.ref = 0 THEN EmptyObject ELSE h[v.ref]

\* a variant of the spread in which the earlier source wins
SpreadKeepFirst(a, b) ==
  [f \in DOMAIN a \cup DOMAIN b |-> IF f \in DOMAIN a THEN a[f] ELSE b[f]]

\* { ...a, ...b }: a shallow copy, the later source winning
Spread(a, b) ==
  [f \in DOMAIN a \cup DOMAIN b |-> IF f \in DOMAIN b THEN b[f] ELSE a[f]]

\* a new object
New(h, obj) == [heap |-> Append(h, obj), val |-> Ref(Len(h) + 1)]

\* lodash cloneDeep: a copy that shares no object with the original
RECURSIVE CloneDeep(_, _)
RECURSIVE CloneFields(_, _, _, _)
CloneFields(h, obj, fs, acc) ==
  IF fs = {} THEN [heap |-> h, obj |-> acc]
  ELSE LET f == CHOOSE x \in fs : TRUE
           c == CloneDeep(h, obj[f])
       IN  CloneFields(c.heap, obj, fs \ {f}, acc @@ (f :> c.val))

\* (Len(h) >= 0 has the heap evaluated before the walk goes on)
CloneDeep(h, v) ==
  IF Len(h) >= 0 /\ v.ref = 0 THEN [heap |-> h, val |-> v]
  ELSE LET r == CloneFields(h, h[v.ref], DOMAIN h[v.ref], EmptyObject)
       IN  New(r.heap, r.obj)

cloneDeep(h, v) == CloneDeep(h, v)

\* a tree put on the heap
RECURSIVE Load(_, _)
RECURSIVE LoadFields(_, _, _, _)
LoadFields(h, obj, fs, acc) ==
  IF fs = {} THEN [heap |-> h, obj |-> acc]
  ELSE LET f == CHOOSE x \in fs : TRUE
           c == Load(h, obj[f])
       IN  LoadFields(c.heap, obj, fs \ {f}, acc @@ (f :> c.val))

Load(h, tree) ==
  IF Len(h) >= 0 /\ tree.t = "p" THEN [heap |-> h, val |-> Prim(tree.p)]
  ELSE LET r == LoadFields(h, tree.o, DOMAIN tree.o, EmptyObject)
       IN  New(r.heap, r.obj)

\* the tree a heap value stands for
RECURSIVE Unload(_, _)
Unload(h, v) ==
  IF v.ref = 0 THEN P(v.prim)
  ELSE O([f \in DOMAIN h[v.ref] |-> Unload(h, h[v.ref][f])])

\* the addresses of the objects reachable from a value
RECURSIVE Reach(_, _)
Reach(h, v) ==
  IF v.ref = 0 THEN {}
  ELSE {v.ref} \cup UNION { Reach(h, h[v.ref][f]) : f \in DOMAIN h[v.ref] }

(***************************************************************************)
(* createNode                                                              *)
(***************************************************************************)
IndexNames == <<"0", "1", "2">>

\* nodeTypes[category].find((node) => node.name === type)
RECURSIVE ArrayFind(_, _, _, _)
ArrayFind(h, arr, i, type) ==
  IF i > Len(IndexNames) \/ IndexNames[i] \notin DOMAIN FieldsOf(h, arr) THEN Undefined
  ELSE IF Get(h, Get(h, arr, IndexNames[i]), "name") = Prim(type)
       THEN Get(h, arr, IndexNames[i])
  ELSE ArrayFind(h, arr, i + 1, type)

\* a variant of the lookup without the break: the last category that
\* holds the type wins
RECURSIVE FindNodeTypeLast(_, _, _, _, _)
FindNodeTypeLast(h, nodeTypes, order, i, type) ==
  IF i > Len(order) THEN Null
  ELSE LET found == ArrayFind(h, Get(h, nodeTypes, order[i]), 1, type)
           later == FindNodeTypeLast(h, nodeTypes, order, i + 1, type)
       IN  IF Truthy(later) THEN later
           ELSE IF Truthy(found) THEN found ELSE Null

\* for (const category in nodeTypes) { ...; if (found) { nodeType = found; break; } }
RECURSIVE FindNodeType(_, _, _, _, _)
FindNodeType(h, nodeTypes, order, i, type) ==
  IF i > Len(order) THEN Null
  ELSE LET found == ArrayFind(h, Get(h, nodeTypes, order[i]), 1, type)
       IN  IF Truthy(found) THEN found
           ELSE FindNodeType(h, nodeTypes, order, i + 1, type)

\* cloneDeep(nodeType.input?.properties) || {}
ClonedProperties(h, nodeType, side) ==
  LET c == cloneDeep(h, Get(h, Get(h, nodeType, side), "properties"))
  IN  IF Truthy(c.val) THEN c ELSE New(c.heap, EmptyObject)

\* if (additionalData.input?.properties) processedAdditionalData.input =
\*   { ...processedAdditionalData.input,
\*     properties: { ...inputProperties, ...additionalData.input.properties } }
MergeProperties(h, additionalData, processed, properties, side) ==
  LET given == Get(h, Get(h, additionalData, side), "properties")
  IN  IF ~Truthy(given) THEN h
      ELSE LET merged == New(h, Spread(FieldsOf(h, properties), FieldsOf(h, given)))
               block == New(merged.heap,
                            Spread(FieldsOf(merged.heap, Get(merged.heap, processed, side)),
                                   [f \in {"properties"} |-> merged.val]))
           IN  [block.heap EXCEPT ![processed.ref] =
                  Spread(@, [f \in {side} |-> block.val])]

\* the group node: data: { title: 'Group', ...additionalData }
GroupNode(h, id, position, additionalData, uuid) ==
  LET data == New(h, Spread([f \in {"title"} |-> Prim("Group")],
                            FieldsOf(h, additionalData)))
      style == New(data.heap, [f \in {"width", "height"} |-> Prim("300")])
  IN  New(style.heap,
          [f \in {"id", "type", "position", "data", "style"} |->
             CASE f = "id" -> IF Truthy(id) THEN id ELSE uuid
               [] f = "type" -> Prim("group")
               [] f = "position" -> position
               [] f = "data" -> data.val
               [] OTHER -> style.val])

\* { properties: inputProperties, ...processedAdditionalData.input }
SideBlock(h, properties, processed, side) ==
  New(h, Spread([f \in {"properties"} |-> properties],
                FieldsOf(h, Get(h, processed, side))))

\* const node = { id, type: nodeType.name, position, data: { ... } }
PlainNode(h, nodeType, id, position, processed, inputProperties, outputProperties) ==
  LET config == cloneDeep(h, Get(h, nodeType, "config"))
      input == SideBlock(config.heap, inputProperties, processed, "input")
      output == SideBlock(input.heap, outputProperties, processed, "output")
      defaults ==
        [f \in {"title", "acronym", "color", "config", "input", "output"} |->
           CASE f = "title" -> Get(h, nodeType, "name")
             [] f = "acronym" -> Get(h, Get(h, nodeType, "visual_tag"), "acronym")
             [] f = "color" -> Get(h, Get(h, nodeType, "visual_tag"), "color")
             [] f = "config" -> config.val
             [] f = "input" -> input.val
             [] OTHER -> output.val]
      data == New(output.heap, Spread(defaults, FieldsOf(output.heap, processed)))
  IN  New(data.heap,
          [f \in {"id", "type", "position", "data"} |->
             CASE f = "id" -> id
               [] f = "type" -> Get(h, nodeType, "name")
               [] f = "position" -> position
               [] OTHER -> data.val])

\* createNode(nodeTypes, type, id, position, additionalData): the heap it
\* leaves and the value it returns.  order is the enumeration order of the
\* catalog's categories, uuid the value uuidv4() would return.
createNode(h, nodeTypes, order, type, id, position, additionalData, uuid) ==
  LET nodeType == FindNodeType(h, nodeTypes, order, 1, type)
  IN  IF ~Truthy(nodeType) THEN [heap |-> h, val |-> Null]
      ELSE
      LET inputProperties == ClonedProperties(h, nodeType, "input")
          outputProperties == ClonedProperties(inputProperties.heap, nodeType, "output")
          processedAdditionalData == cloneDeep(outputProperties.heap, additionalData)
          h1 == MergeProperties(processedAdditionalData.heap, additionalData,
                                processedAdditionalData.val, inputProperties.val, "input")
          h2 == MergeProperties(h1, additionalData,
                                processedAdditionalData.val, outputProperties.val, "output")
      IN  IF type = "group"
          THEN GroupNode(h2, id, position, additionalData, uuid)
          ELSE PlainNode(h2, nodeType, id, position, processedAdditionalData.val,
                         inputProperties.val, outputProperties.val)

(***************************************************************************)
(* The inputs of createNode that the model draws from                      *)
(***************************************************************************)
NoTree == [f \in {} |-> P("")]

Entry(type) == O([type |-> P(type)])

TemplateLLM1 ==
  O([name |-> P("LLM"),
     visual_tag |-> O([acronym |-> P("L1"), color |-> P("red")]),
     config |-> O([model |-> P("gpt"), opts |-> O([top |-> P("1")])]),
     input |-> O([properties |-> O([a |-> Entry("string"), b |-> Entry("number")])]),
     output |-> O([properties |-> O([r |-> Entry("string")])])])

TemplateLLM2 ==
  O([name |-> P("LLM"),
     visual_tag |-> O([acronym |-> P("L2"), color |-> P("blue")]),
     config |-> O([model |-> P("other")]),
     output |-> O([properties |-> O([r |-> Entry("number")])])])

TemplateTool ==
  O([name |-> P("Tool"),
     visual_tag |-> O([acronym |-> P("T"), color |-> P("green")]),
     config |-> O(NoTree),
     input |-> O([properties |-> O([q |-> Entry("string")])])])

TemplateGroup ==
  O([name |-> P("group"),
     visual_tag |-> O([acronym |-> P("G"), color |-> P("grey")]),
     config |-> O(NoTree)])

CatalogNames == {"A", "B"}

\* the categories of a catalog, in their enumeration order
Categories(c) ==
  IF c = "A"
  THEN << [name |-> "ai", items |-> <<TemplateTool, TemplateLLM1>>],
          [name |-> "logic", items |-> <<TemplateLLM2>>] >>
  ELSE << [name |-> "layout", items |-> <<TemplateGroup>>],
          [name |-> "ai", items |-> <<TemplateLLM2, TemplateLLM1>>] >>

ArrayTree(items) ==
  O([f \in { IndexNames[i] : i \in 1..Len(items) } |->
       items[CHOOSE i \in 1..Len(items) : IndexNames[i] = f]])

CatalogTree(c) ==
  O([n \in { Categories(c)[i].name : i \in 1..Len(Categories(c)) } |->
       ArrayTree((CHOOSE cat \in { Categories(c)[i] : i \in 1..Len(Categories(c)) } :
                    cat.name = n).items)])

CatalogOrder(c) == [i \in 1..Len(Categories(c)) |-> Categories(c)[i].name]

TypePool == {"LLM", "Tool", "group", "Missing"}

IdPool == {"", "id1"}

PositionTree == O([x |-> P("10"), y |-> P("20")])

OverridesPool ==
  { O(NoTree),
    O([title |-> P("X")]),
    O([input |-> O([properties |-> O([a |-> Entry("int"), c |-> Entry("bool")])])]),
    O([input |-> O([label |-> P("in")])]),
    O([config |-> O([model |-> P("mine")]), acronym |-> P("ZZ"),
       output |-> O([properties |-> O([r |-> Entry("any")]), extra |-> P("e")])]),
    O([title |-> P("X"), color |-> P("pink"), meta |-> O([k |-> P("v")])]) }

\* the heap the caller holds: the catalog, the overrides, the position
InputHeap(c, overrides) ==
  LET l1 == Load(<< >>, CatalogTree(c))
      l2 == Load(l1.heap, overrides)
      l3 == Load(l2.heap, PositionTree)
  IN  [heap |-> l3.heap,
       roots |-> [nodeTypes |-> l1.val, additionalData |-> l2.val, position |-> l3.val]]

(***************************************************************************)
(* useSaveWorkflow: the serializer and the debounced save.  Nodes are      *)
(* trees ({id, type, position, data: {title, config}}), a null entry is    *)
(* P("null"); edges and link records are records of strings.               *)
(***************************************************************************)
SaveNode(id, type, inSchema, outSchema) ==
  O([id |-> P(id), type |-> P(type), position |-> PositionTree,
     data |-> O([title |-> P(id),
                 config |-> O([input_schema |-> O(inSchema),
                               output_schema |-> O(outSchema),
                               model |-> P("m")])])])

NullEntry == P("null")

NodeIn == SaveNode("in", "InputNode", [old |-> P("int")], [a |-> P("str")])

NodeLLM == SaveNode("llm", "LLM", [x |-> P("int")], [r |-> P("int")])

Edge(s, sh, t, th) == [source |-> s, sourceHandle |-> sh, target |-> t, targetHandle |-> th]

EdgeInToLLM == Edge("in", "a", "llm", "x")

EdgeLLMToGone == Edge("llm", "r", "gone", "y")

EdgePool == {EdgeInToLLM, EdgeLLMToGone}

\* the graphs the store may hold when the hook mounts
GraphPool ==
  { [nodes |-> <<NodeIn, NodeLLM>>, edges |-> <<EdgeInToLLM>>],
    [nodes |-> <<NullEntry, NodeIn, NodeLLM>>, edges |-> <<EdgeInToLLM>>],
    [nodes |-> <<NodeIn, NodeLLM, NullEntry>>, edges |-> <<EdgeInToLLM>>],
    [nodes |-> <<NodeIn, NullEntry>>, edges |-> << >>],
    [nodes |-> <<NodeLLM>>, edges |-> << >>] }

VariablePool == {"a", "b"}

\* the variables declared when the hook mounts
InitialVariables == {{}, {"a"}}

IsNullish(n) == n = P("null") \/ n = P("undefined")

\* ToBoolean of a tree
TruthyTree(t) == t.t = "o" \/ t.p \notin {"undefined", "null", "", "0", "false"}

\* nodes.filter((node) => node !== null && node !== undefined)
FilterNodes(ns) == SelectSeq(ns, LAMBDA n : ~IsNullish(n))

\* a variant of the .map callback that leaves an InputNode's schema as it is
UpdatedNodeKeepSchema(node, inputVariables) ==
  O(Spread(node.o,
      [config |-> TreeGet(TreeGet(node, "data"), "config"),
       title |-> TreeGet(TreeGet(node, "data"), "title")]))

\* the .map callback of lines 18-34
UpdatedNode(node, inputVariables) ==
  IF TreeGet(node, "type") = P("InputNode")
  THEN O(Spread(node.o,
           [config |->
              O(Spread(TreeGet(TreeGet(node, "data"), "config").o,
                       [input_schema |-> O([k \in inputVariables |-> P("str")])]))]))
  ELSE O(Spread(node.o,
           [config |-> TreeGet(TreeGet(node, "data"), "config"),
            title |-> TreeGet(TreeGet(node, "data"), "title")]))

\* the record of definition.nodes
NodeRecord(node) ==
  [id |-> TreeGet(node, "id"), node_type |-> TreeGet(node, "type"),
   config |-> TreeGet(node, "config"), coordinates |-> TreeGet(node, "position")]

\* nodes.find((node) => node.id === id): reading .id of a null entry throws
RECURSIVE FindById(_, _, _)
FindById(ns, i, id) ==
  IF i > Len(ns) THEN [threw |-> FALSE, val |-> P("undefined")]
  ELSE IF IsNullish(ns[i]) THEN [threw |-> TRUE, val |-> P("undefined")]
  ELSE IF TreeGet(ns[i], "id") = P(id) THEN [threw |-> FALSE, val |-> ns[i]]
  ELSE FindById(ns, i + 1, id)

\* node?.config?.data?.[schema]?.[handle] || 'str'
HandleType(node, schema, handle) ==
  LET t == TreeGet(TreeGet(TreeGet(TreeGet(node, "config"), "data"), schema), handle)
  IN  IF TruthyTree(t) THEN t ELSE P("str")

\* the .map callback of lines 45-57
Link(ns, edge) ==
  [source_id |-> edge.source,
   source_output_key |-> edge.sourceHandle,
   source_output_type |->
     HandleType(FindById(ns, 1, edge.source).val, "output_schema", edge.sourceHandle),
   target_id |-> edge.target,
   target_input_key |-> edge.targetHandle,
   target_input_type |->
     HandleType(FindById(ns, 1, edge.target).val, "input_schema", edge.targetHandle)]

LinkThrows(ns, edge) ==
  FindById(ns, 1, edge.source).threw \/ FindById(ns, 1, edge.target).threw

\* updatedWorkflow of lines 36-60
WorkflowDocument(ns, es, inputVariables) ==
  [name |-> "workflow",
   definition |->
     [nodes |-> [i \in 1..Len(FilterNodes(ns)) |->
                   NodeRecord(UpdatedNode(FilterNodes(ns)[i], inputVariables))],
      links |-> [i \in 1..Len(es) |-> Link(ns, es[i])],
      test_inputs |-> "tests"]]

NoDocument == [name |-> "", definition |-> [nodes |-> << >>, links |-> << >>,
                                             test_inputs |-> ""]]

\* saveWorkflow up to its persistence call: the document it sends, or the
\* exception its try block catches
saveWorkflow(ns, es, inputVariables) ==
  IF \E i \in 1..Len(es) : LinkThrows(ns, es[i])
  THEN [threw |-> TRUE, document |-> NoDocument]
  ELSE [threw |-> FALSE, document |-> WorkflowDocument(ns, es, inputVariables)]

\* if (nodes.length > 0 || edges.length > 0)
HasGraph(ns, es) == Len(ns) > 0 \/ Len(es) > 0

\* the trailing edge of the save's debounce
SaveTimerExpired(elapsed) == elapsed >= SaveDelayMs

\* a variant of the catch block that issues the failed call again
RetryOnce(call) == <<call>>

\* the catch block: what is issued again after a failed call (nothing)
RetryAfterFailure(call) == << >>

\* a variant of the effect that leaves a running timer as it is
KeepSaveTimer(elapsed) == elapsed

\* the effect's cleanup and body: debouncedSave.cancel(), then a new
\* debouncedSave() whose wait starts now
RestartSaveTimer(elapsed) == 0

VARIABLES
  flowNodes,               \* state.flow.nodes as the hook reads it
  flowEdges,               \* state.flow.edges
  workflowInputVariables,  \* the declared input variable names
  hookMounted,             \* the component that uses useSaveWorkflow is mounted
  savePending,             \* debouncedSave has a call waiting
  saveElapsedMs,           \* time since debouncedSave was called
  saveClosure,             \* the nodes, edges and variables saveWorkflow closes over
  calls,                   \* updateWorkflow calls in flight
  backend,                 \* the call the backend applied last
  saveLog                  \* history: counters and the last step

saveVars == <<flowNodes, flowEdges, workflowInputVariables, hookMounted,
              savePending, saveElapsedMs, saveClosure, calls, backend, saveLog>>

NoSave == [seq |-> 0, document |-> NoDocument]

NoClosure == [nodes |-> << >>, edges |-> << >>, inputVariables |-> {}]

InitSaveLog == [op |-> "init", changes |-> 0, bursts |-> 0, fired |-> 0,
                issued |-> 0, failed |-> 0]

SaveOff ==
  /\ flowNodes = << >>
  /\ flowEdges = << >>
  /\ workflowInputVariables = {}
  /\ hookMounted = FALSE
  /\ savePending = FALSE
  /\ saveElapsedMs = 0
  /\ saveClosure = NoClosure
  /\ calls = << >>
  /\ backend = NoSave
  /\ saveLog = InitSaveLog

\* a change of nodes, edges or input variables in the store while the hook
\* is mounted: the hook renders with it, saveWorkflow and debouncedSave are made anew, the
\* effect cancels the old debouncedSave and calls the new one
GraphChanged(ns, es, vs) ==
  /\ hookMounted
  /\ saveLog.changes < MaxChanges
  /\ flowNodes' = ns
  /\ flowEdges' = es
  /\ workflowInputVariables' = vs
  /\ savePending' = TRUE
  /\ saveElapsedMs' = IF savePending THEN RestartSaveTimer(saveElapsedMs) ELSE 0
  /\ saveClosure' = [nodes |-> ns, edges |-> es, inputVariables |-> vs]
  /\ saveLog' = [saveLog EXCEPT !.op = "change", !.changes = @ + 1,
                                !.bursts = IF savePending THEN @ ELSE @ + 1]
  /\ UNCHANGED <<hookMounted, calls, backend>>

RemoveNode ==
  \E i \in 1..Len(flowNodes) :
    GraphChanged(RemoveAt(flowNodes, i), flowEdges, workflowInputVariables)

RemoveEdge ==
  \E i \in 1..Len(flowEdges) :
    GraphChanged(flowNodes, RemoveAt(flowEdges, i), workflowInputVariables)

AddEdge ==
  \E e \in EdgePool :
    /\ \A i \in 1..Len(flowEdges) : flowEdges[i] # e
    /\ GraphChanged(flowNodes, Append(flowEdges, e), workflowInputVariables)

DeclareVariable ==
  \E v \in VariablePool \ workflowInputVariables :
    GraphChanged(flowNodes, flowEdges, workflowInputVariables \cup {v})

\* time passes while the save's debounce timer runs
SaveTick ==
  /\ savePending
  /\ ~SaveTimerExpired(saveElapsedMs)
  /\ saveElapsedMs' = saveElapsedMs + SaveTickMs
  /\ saveLog' = [saveLog EXCEPT !.op = "tick"]
  /\ UNCHANGED <<flowNodes, flowEdges, workflowInputVariables, hookMounted,
                 savePending, saveClosure, calls, backend>>

\* the timer fires: the debounced callback of lines 70-74, and saveWorkflow
\* up to its await
SaveFire ==
  /\ savePending
  /\ SaveTimerExpired(saveElapsedMs)
  /\ savePending' = FALSE
  /\ saveElapsedMs' = 0
  /\ LET r == saveWorkflow(saveClosure.nodes, saveClosure.edges,
                           saveClosure.inputVariables)
     IN  IF HasGraph(saveClosure.nodes, saveClosure.edges) /\ ~r.threw
         THEN /\ calls' = Append(calls, [seq |-> saveLog.issued + 1,
                                          document |-> r.document])
              /\ saveLog' = [saveLog EXCEPT !.op = "fire", !.fired = @ + 1,
                                            !.issued = @ + 1]
         ELSE /\ calls' = calls
              /\ saveLog' = [saveLog EXCEPT !.op = "fire", !.fired = @ + 1]
  /\ UNCHANGED <<flowNodes, flowEdges, workflowInputVariables, hookMounted,
                 saveClosure, backend>>

\* an updateWorkflow call resolves: the backend has applied its document
CompleteCall ==
  \E i \in 1..Len(calls) :
    /\ backend' = calls[i]
    /\ calls' = RemoveAt(calls, i)
    /\ saveLog' = [saveLog EXCEPT !.op = "complete"]
    /\ UNCHANGED <<flowNodes, flowEdges, workflowInputVariables, hookMounted,
                   savePending, saveElapsedMs, saveClosure>>

\* an updateWorkflow call rejects: the catch block logs the error
RejectCall ==
  \E i \in 1..Len(calls) :
    /\ calls' = RemoveAt(calls, i) \o RetryAfterFailure(calls[i])
    /\ saveLog' = [saveLog EXCEPT !.op = "reject", !.failed = @ + 1]
    /\ UNCHANGED <<flowNodes, flowEdges, workflowInputVariables, hookMounted,
                   savePending, saveElapsedMs, saveClosure, backend>>

\* the component unmounts: the effect's cleanup runs debouncedSave.cancel()
UnmountHook ==
  /\ hookMounted
  /\ hookMounted' = FALSE
  /\ savePending' = FALSE
  /\ saveElapsedMs' = 0
  /\ saveLog' = [saveLog EXCEPT !.op = "unmount"]
  /\ UNCHANGED <<flowNodes, flowEdges, workflowInputVariables, saveClosure,
                 calls, backend>>

(***************************************************************************)
(* The sidebar's form: renderField, the paths its controls hand to         *)
(* handleInputChange, and the few-shot examples.  A path string is the     *)
(* sequence of its names and dots ("LLM.config.p" is <<"LLM", ".",         *)
(* "config", ".", "p">>); a name holds no dot.  The config lives on the    *)
(* object heap; an array is an object with the fields "0", "1", ...        *)
(***************************************************************************)
MaxFormOps == 2

Dot == "."

\* path.split('.')
Split(path) == SelectSeq(path, LAMBDA t : t # Dot)

\* segments.join('.')
RECURSIVE Join(_)
Join(segments) ==
  IF Len(segments) <= 1 THEN segments
  ELSE <<segments[1], Dot>> \o Join(Tail(segments))

\* segments.slice(-2)
LastTwo(segments) ==
  IF Len(segments) <= 2 THEN segments
  ELSE SubSeq(segments, Len(segments) - 1, Len(segments))

\* key.includes('.')
Includes(path, t) == \E i \in 1..Len(path) : path[i] = t

\* `${parentPath ? `${parentPath}.` : ''}${key}`
FullPath(parentPath, key) ==
  IF parentPath = << >> THEN <<key>> ELSE parentPath \o <<Dot, key>>

\* lodash set(object, path, value), on the object at address a: an
\* intermediate value that is not an object is replaced by a new object
RECURSIVE SetPath(_, _, _, _)
SetPath(h, a, segments, value) ==
  IF Len(h) >= 0 /\ Len(segments) = 1
  THEN [h EXCEPT ![a] = Spread(@, [f \in {segments[1]} |-> value])]
  ELSE LET child == Get(h, Ref(a), segments[1])
       IN  IF child.ref # 0
           THEN SetPath(h, child.ref, Tail(segments), value)
           ELSE LET n == New(h, EmptyObject)
                    h2 == [n.heap EXCEPT ![a] =
                             Spread(@, [f \in {segments[1]} |-> n.val])]
                IN  SetPath(h2, n.val.ref, Tail(segments), value)

\* a variant of updateNestedModel that sets the path on the object itself
updateNestedModelInPlace(h, obj, path, value) ==
  [heap |-> SetPath(h, obj.ref, Split(path), value), val |-> obj]

\* updateNestedModel(obj, path, value): cloneDeep, then set on the clone
updateNestedModel(h, obj, path, value) ==
  LET deepClone == cloneDeep(h, obj)
  IN  [heap |-> SetPath(deepClone.heap, deepClone.val.ref, Split(path), value),
       val |-> deepClone.val]

\* handleInputChange: updatedModel
updatedModel(h, model, key, value) ==
  IF Includes(key, Dot)
  THEN updateNestedModel(h, model, key, value)
  ELSE New(h, Spread(FieldsOf(h, model), [f \in {key[1]} |-> value]))

(***************************************************************************)
(* renderField                                                             *)
(***************************************************************************)
\* a field of nodeSchema.config: what typeof gives for it, and its fields
NoSub == [k \in {} |-> 0]
Str == [type |-> "string", array |-> FALSE, sub |-> NoSub]
Num == [type |-> "number", array |-> FALSE, sub |-> NoSub]
Bool == [type |-> "boolean", array |-> FALSE, sub |-> NoSub]
Arr == [type |-> "object", array |-> TRUE, sub |-> NoSub]
Obj(sub) == [type |-> "object", array |-> FALSE, sub |-> sub]

\* key.endsWith('_prompt'), on the names the model uses
EndsWithPrompt(key) == key \in {"task_prompt", "_prompt"}

\* the control renderField returns for a field that is not an object to
\* walk into; enum and range say what getFieldMetadata(fullPath) holds
Widget(key, field, enum, range) ==
  IF enum THEN "select"
  ELSE IF key \in {"input_schema", "output_schema"} THEN "schema_editor"
  ELSE IF key \in {"system_message", "user_message"} \/ EndsWithPrompt(key)
       THEN "text_editor"
  ELSE IF key = "code" THEN "code_editor"
  ELSE CASE field.type = "string" -> "textarea"
         [] field.type = "number" -> IF range THEN "slider" ELSE "number_input"
         [] field.type = "boolean" -> "switch"
         [] OTHER -> "none"

\* the field is walked into: case 'object', a valid object and no array
IsGroup(key, field, enum) ==
  /\ Widget(key, field, enum, FALSE) = "none"
  /\ field.type = "object" /\ ~field.array

\* renderField(key, field, value, parentPath): the controls it renders.
\* meta is the metadata of the node type: the full paths that have an enum,
\* and those that have a minimum or a maximum.
RECURSIVE renderField(_, _, _, _)
renderField(key, field, parentPath, meta) ==
  LET fullPath == FullPath(parentPath, key)
      enum == fullPath \in meta.enum
      range == fullPath \in meta.range
  IN  IF IsGroup(key, field, enum)
      THEN UNION { renderField(subKey, field.sub[subKey], fullPath, meta) :
                     subKey \in DOMAIN field.sub }
      ELSE { [key |-> key, fullPath |-> fullPath, parentPath |-> parentPath,
              type |-> field.type,
              widget |-> Widget(key, field, enum, range)] }

\* renderConfigFields: one renderField per key of nodeSchema.config, but
\* title and type, with parentPath `${nodeType}.config`
renderConfigFields(nodeType, config, meta) ==
  UNION { renderField(key, config[key], <<nodeType, Dot, "config">>, meta) :
            key \in DOMAIN config \ {"title", "type"} }

\* the key a control hands to handleInputChange when it is edited
ChangeKey(control) ==
  IF control.widget = "select"
  THEN Join(LastTwo(Split(control.fullPath)))
  ELSE IF control.widget = "slider"
  THEN LET lastTwoDots == LastTwo(Split(FullPath(control.parentPath, control.key)))
       IN  IF lastTwoDots[1] = "config" THEN <<lastTwoDots[2]>>
           ELSE Join(lastTwoDots)
  ELSE <<control.key>>

(***************************************************************************)
(* The node types and nodes the form is shown for                          *)
(***************************************************************************)
FormTypes == {"LLM", "Code"}

\* nodeSchema.config of a node type
SchemaConfig(nodeType) ==
  IF nodeType = "LLM"
  THEN [k |-> Str, t |-> Num, s |-> Str,
        p |-> Obj([s |-> Str, t |-> Num, e |-> Str, b |-> Bool, n |-> Num,
                   q |-> Obj([e |-> Str, t |-> Num])]),
        user_message |-> Str, few_shot_examples |-> Arr, title |-> Str]
  ELSE [code |-> Str, system_message |-> Str, user_message |-> Str,
        task_prompt |-> Num, input_schema |-> Obj([a |-> Str]),
        output_schema |-> Str, n |-> Num, b |-> Bool, type |-> Str]

ConfigPath(nodeType, keys) == Join(<<nodeType, "config">> \o keys)

\* the property metadata of a node type: the paths with an enum, and those
\* with a minimum or a maximum
SchemaMeta(nodeType) ==
  IF nodeType = "LLM"
  THEN [enum |-> { ConfigPath("LLM", <<"k">>), ConfigPath("LLM", <<"p", "e">>),
                   ConfigPath("LLM", <<"p", "q", "e">>) },
        range |-> { ConfigPath("LLM", <<"t">>), ConfigPath("LLM", <<"p", "t">>),
                    ConfigPath("LLM", <<"p", "q", "t">>) }]
  ELSE [enum |-> { ConfigPath("Code", <<"code">>) },
        range |-> { ConfigPath("Code", <<"task_prompt">>) }]

FormNodeIds == {"A", "B"}

FormNodeType(n) == IF n = "A" THEN "LLM" ELSE "Code"

Example(input, output) == O([input |-> P(input), output |-> P(output)])

\* node.data.config of the two nodes
FormConfig(n) ==
  IF n = "A"
  THEN O([k |-> P("k0"), t |-> P("0"), s |-> P("s0"),
          p |-> O([s |-> P("ps0"), t |-> P("1"), e |-> P("e0"), b |-> P("false"),
                   n |-> P("5"), q |-> O([e |-> P("qe0"), t |-> P("2")])]),
          user_message |-> P("hi"),
          few_shot_examples |-> ArrayTree(<<Example("i0", "o0"), Example("i1", "o1")>>),
          title |-> P("A")])
  ELSE O([code |-> P("c0"), system_message |-> P("sys"), user_message |-> P("u"),
          task_prompt |-> P("7"), input_schema |-> O([a |-> P("str")]),
          output_schema |-> P("out"), n |-> P("3"), b |-> P("true"),
          type |-> P("Code")])

\* the value an edit gives
NewValue == Prim("new")

\* fewShotIndex === null
NoIndex == -1

\* (dynamicModel?.few_shot_examples || [])
Examples(h, model) ==
  LET list == Get(h, model, "few_shot_examples")
  IN  IF Truthy(list) THEN FieldsOf(h, list) ELSE EmptyObject

ArrayLength(arr) == Cardinality(DOMAIN arr)

\* [...examples, pair]
Appended(arr, pair) == arr @@ (IndexNames[ArrayLength(arr) + 1] :> pair)

\* a variant of the deletion that removes the last pair
SpliceLast(arr, index) ==
  [f \in { IndexNames[j] : j \in 1..(ArrayLength(arr) - 1) } |-> arr[f]]

\* updatedExamples.splice(index, 1), index counted from 0
Splice(arr, index) ==
  IF index >= ArrayLength(arr) THEN arr
  ELSE [f \in { IndexNames[j] : j \in 1..(ArrayLength(arr) - 1) } |->
          LET j == CHOOSE x \in 1..(ArrayLength(arr) - 1) : IndexNames[x] = f
          IN  IF j <= index THEN arr[IndexNames[j]] ELSE arr[IndexNames[j + 1]]]

VARIABLES
  formHeap,       \* the objects of the configs and local models
  formStore,      \* node.data.config of every node: a reference
  formNodeID,     \* the node the sidebar shows
  formModel,      \* dynamicModel: a reference
  formControls,   \* the controls the last render put on the form
  fewShotIndex,   \* the example open in the editor, or NoIndex
  formPending,    \* the call waiting in debouncedDispatch
  formLog         \* history: the last step

formVars == <<formHeap, formStore, formNodeID, formModel, formControls,
              fewShotIndex, formPending, formLog>>

NoControl == [key |-> "", fullPath |-> << >>, parentPath |-> << >>,
              type |-> "", widget |-> "none"]

NoPending == [id |-> NoNode, model |-> Undefined]

InitFormLog == [op |-> "init", ops |-> 0, control |-> NoControl, key |-> << >>,
                index |-> NoIndex]

FormOff ==
  /\ formHeap = << >>
  /\ formStore = [n \in FormNodeIds |-> Undefined]
  /\ formNodeID = NoNode
  /\ formModel = Undefined
  /\ formControls = {}
  /\ fewShotIndex = NoIndex
  /\ formPending = NoPending
  /\ formLog = InitFormLog

\* the store as the sidebar finds it: the two configs, each on the heap
FormHeap ==
  LET a == Load(<< >>, FormConfig("A"))
      b == Load(a.heap, FormConfig("B"))
  IN  [heap |-> b.heap, store |-> [n \in FormNodeIds |-> IF n = "A" THEN a.val ELSE b.val]]

\* what the sidebar renders for node n
Render(n) == renderConfigFields(FormNodeType(n), SchemaConfig(FormNodeType(n)),
                                SchemaMeta(FormNodeType(n)))

\* the few-shot block is part of the user_message field
FewShotRendered ==
  \E c \in formControls : c.key = "user_message" /\ c.widget = "text_editor"

\* setSelectedNode to another node: the sidebar renders it and the effect
\* reloads nodeType, nodeSchema and dynamicModel; fewShotIndex is kept
FormSelectNode(n) ==
  /\ n # formNodeID
  /\ formNodeID' = n
  /\ formModel' = formStore[n]
  /\ formControls' = Render(n)
  /\ formLog' = [formLog EXCEPT !.op = "select", !.control = NoControl,
                                !.key = << >>, !.index = NoIndex]
  /\ UNCHANGED <<formHeap, formStore, fewShotIndex, formPending>>

\* handleInputChange(key, value, isSlider), from setDynamicModel on; a
\* commit to the store has the effect reload dynamicModel from it
FormInputChange(key, value, isSlider, op, control, index) ==
  LET r == updatedModel(formHeap, formModel, key, value)
  IN  /\ formLog.ops < MaxFormOps
      /\ formHeap' = r.heap
      /\ formModel' = r.val
      /\ IF isSlider
         THEN /\ formPending' = [id |-> formNodeID, model |-> r.val]
              /\ UNCHANGED formStore
         ELSE /\ formStore' = [formStore EXCEPT ![formNodeID] = r.val]
              /\ UNCHANGED formPending
      /\ formLog' = [op |-> op, ops |-> formLog.ops + 1, control |-> control,
                     key |-> key, index |-> index]
      /\ UNCHANGED <<formNodeID, formControls>>

\* the onChange of a control of the form
EditControl ==
  \E c \in formControls :
    /\ c.widget # "none"
    /\ FormInputChange(ChangeKey(c), NewValue, c.widget = "slider", "edit", c,
                       NoIndex)
    /\ UNCHANGED fewShotIndex

\* handleAddNewExample
handleAddNewExample ==
  /\ FewShotRendered
  /\ fewShotIndex = NoIndex
  /\ ArrayLength(Examples(formHeap, formModel)) < Len(IndexNames)
  /\ LET pair == New(formHeap, [f \in {"input", "output"} |-> Prim("")])
         updatedExamples == New(pair.heap,
                                Appended(Examples(formHeap, formModel), pair.val))
         r == updatedModel(updatedExamples.heap, formModel,
                           <<"few_shot_examples">>, updatedExamples.val)
     IN  /\ formLog.ops < MaxFormOps
         /\ formHeap' = r.heap
         /\ formModel' = r.val
         /\ formStore' = [formStore EXCEPT ![formNodeID] = r.val]
         /\ fewShotIndex' = ArrayLength(FieldsOf(updatedExamples.heap,
                                                 updatedExamples.val)) - 1
         /\ formLog' = [op |-> "add", ops |-> formLog.ops + 1,
                        control |-> NoControl, key |-> <<"few_shot_examples">>,
                        index |-> NoIndex]
  /\ UNCHANGED <<formNodeID, formControls, formPending>>

\* the list of examples the sidebar shows: node?.data?.config?.few_shot_examples
ShownExamples == Examples(formHeap, formStore[formNodeID])

\* handleDeleteExample(index), from the trash button of a shown example
handleDeleteExample(index) ==
  /\ FewShotRendered
  /\ fewShotIndex = NoIndex
  /\ index \in 0..(ArrayLength(ShownExamples) - 1)
  /\ LET updatedExamples == New(formHeap,
                                Splice(Examples(formHeap, formModel), index))
         r == updatedModel(updatedExamples.heap, formModel,
                           <<"few_shot_examples">>, updatedExamples.val)
     IN  /\ formLog.ops < MaxFormOps
         /\ formHeap' = r.heap
         /\ formModel' = r.val
         /\ formStore' = [formStore EXCEPT ![formNodeID] = r.val]
         /\ formLog' = [op |-> "delete", ops |-> formLog.ops + 1,
                        control |-> NoControl, key |-> <<"few_shot_examples">>,
                        index |-> index]
  /\ UNCHANGED <<formNodeID, formControls, fewShotIndex, formPending>>

\* onClick of a shown example: setFewShotIndex(index)
OpenExample(index) ==
  /\ FewShotRendered
  /\ fewShotIndex = NoIndex
  /\ index \in 0..(ArrayLength(ShownExamples) - 1)
  /\ fewShotIndex' = index
  /\ formLog' = [formLog EXCEPT !.op = "open", !.control = NoControl,
                                !.key = << >>, !.index = index]
  /\ UNCHANGED <<formHeap, formStore, formNodeID, formModel, formControls,
                 formPending>>

\* onSave, onDiscard of the example editor: setFewShotIndex(null)
CloseExample ==
  /\ FewShotRendered
  /\ fewShotIndex # NoIndex
  /\ fewShotIndex' = NoIndex
  /\ formLog' = [formLog EXCEPT !.op = "close", !.control = NoControl,
                                !.key = << >>, !.index = NoIndex]
  /\ UNCHANGED <<formHeap, formStore, formNodeID, formModel, formControls,
                 formPending>>

\* the debounced commit of a slider edit is dispatched; the effect reloads
\* dynamicModel if the commit is to the node shown
FormDebounceFire ==
  /\ formPending # NoPending
  /\ formStore' = [formStore EXCEPT ![formPending.id] = formPending.model]
  /\ formModel' = IF formPending.id = formNodeID THEN formPending.model
                  ELSE formModel
  /\ formPending' = NoPending
  /\ formLog' = [formLog EXCEPT !.op = "fire", !.control = NoControl,
                                !.key = << >>, !.index = NoIndex]
  /\ UNCHANGED <<formHeap, formNodeID, formControls, fewShotIndex>>

VARIABLES
  fPhase,      \* "off", "input", "created", "mutated"
  fArgs,       \* the arguments: catalog, type, id, overrides
  fRoots,      \* where the arguments are on the heap
  fHeap,       \* the object heap
  fNode,       \* the value createNode returned
  fMutations   \* how many writes the caller has made to the returned node

factoryVars == <<fPhase, fArgs, fRoots, fHeap, fNode, fMutations>>

NoArguments == [catalog |-> "A", type |-> "", id |-> "", overrides |-> O(NoTree)]

FactoryOff ==
  /\ fPhase = "off"
  /\ fArgs = NoArguments
  /\ fRoots = [nodeTypes |-> Undefined, additionalData |-> Undefined,
               position |-> Undefined]
  /\ fHeap = << >>
  /\ fNode = Undefined
  /\ fMutations = 0

InitFactory ==
  \E c \in CatalogNames : \E type \in TypePool : \E id \in IdPool :
  \E overrides \in OverridesPool :
    /\ InitStore
    /\ SaveOff
    /\ FormOff
    /\ fPhase = "input"
    /\ fArgs = [catalog |-> c, type |-> type, id |-> id, overrides |-> overrides]
    /\ fRoots = InputHeap(c, overrides).roots
    /\ fHeap = InputHeap(c, overrides).heap
    /\ fNode = Undefined
    /\ fMutations = 0

\* the caller calls createNode
CreateNode ==
  /\ fPhase = "input"
  /\ LET r == createNode(fHeap, fRoots.nodeTypes, CatalogOrder(fArgs.catalog),
                         fArgs.type, Prim(fArgs.id), fRoots.position,
                         fRoots.additionalData, Prim("uuid"))
     IN  /\ fHeap' = r.heap
         /\ fNode' = r.val
  /\ fPhase' = "created"
  /\ UNCHANGED <<fArgs, fRoots, fMutations>>

\* the caller writes to a field, or adds one, on some object of the returned node
MutateNode ==
  /\ fPhase \in {"created", "mutated"}
  /\ fMutations < MaxMutations
  /\ \E a \in Reach(fHeap, fNode) : \E f \in DOMAIN fHeap[a] \cup {"added"} :
       fHeap' = [fHeap EXCEPT ![a] = Spread(@, [g \in {f} |-> Prim("mutated")])]
  /\ fPhase' = "mutated"
  /\ fMutations' = fMutations + 1
  /\ UNCHANGED <<fArgs, fRoots, fNode>>

\* the hook mounts: its effect calls debouncedSave()
InitSave ==
  \E g \in GraphPool : \E vs \in InitialVariables :
    /\ InitStore
    /\ FactoryOff
    /\ FormOff
    /\ flowNodes = g.nodes
    /\ flowEdges = g.edges
    /\ workflowInputVariables = vs
    /\ hookMounted = TRUE
    /\ savePending = TRUE
    /\ saveElapsedMs = 0
    /\ saveClosure = [nodes |-> g.nodes, edges |-> g.edges, inputVariables |-> vs]
    /\ calls = << >>
    /\ backend = NoSave
    /\ saveLog = [InitSaveLog EXCEPT !.bursts = 1]

\* the sidebar mounts for a node
InitForm ==
  \E n \in FormNodeIds :
    /\ InitStore
    /\ FactoryOff
    /\ SaveOff
    /\ formHeap = FormHeap.heap
    /\ formStore = FormHeap.store
    /\ formNodeID = n
    /\ formModel = FormHeap.store[n]
    /\ formControls = Render(n)
    /\ fewShotIndex = NoIndex
    /\ formPending = NoPending
    /\ formLog = InitFormLog

Next ==
  \/ UNCHANGED <<factoryVars, saveVars, formVars>> /\ \E n \in NodeIds : SelectNode(n)
  \/ UNCHANGED <<factoryVars, saveVars, formVars>> /\ CloseSidebar
  \/ UNCHANGED <<factoryVars, saveVars, formVars>> /\ SliderEdit
  \/ UNCHANGED <<factoryVars, saveVars, formVars>> /\ FieldEdit
  \/ UNCHANGED <<factoryVars, saveVars, formVars>> /\ Tick
  \/ UNCHANGED <<factoryVars, saveVars, formVars>> /\ DebounceFire
  \/ UNCHANGED <<factoryVars, saveVars, formVars>> /\ OrphanFire
  \/ UNCHANGED <<factoryVars, saveVars, formVars>> /\
       \E n \in NodeIds : \E key \in DOMAIN nodes[n].config.input_schema
                                       \cup DOMAIN nodes[n].config.output_schema :
         StartEditing(n, key)
  \/ UNCHANGED <<factoryVars, saveVars, formVars>> /\ \E n \in NodeIds : CancelEditing(n)
  \/ UNCHANGED <<factoryVars, saveVars, formVars>> /\
       \E n \in NodeIds : \E typed \in TypedPool : \E st \in SchemaTypes :
         handleSchemaKeyEdit(n, editingField[n], typed, st)
  \/ UNCHANGED <<factoryVars, saveVars, formVars>> /\ handleSchemaKeyEditEdges

NextFactory ==
  \/ UNCHANGED <<storeVars, saveVars, formVars>> /\ CreateNode
  \/ UNCHANGED <<storeVars, saveVars, formVars>> /\ MutateNode

NextSave ==
  \/ UNCHANGED <<storeVars, factoryVars, formVars>> /\ RemoveNode
  \/ UNCHANGED <<storeVars, factoryVars, formVars>> /\ RemoveEdge
  \/ UNCHANGED <<storeVars, factoryVars, formVars>> /\ AddEdge
  \/ UNCHANGED <<storeVars, factoryVars, formVars>> /\ DeclareVariable
  \/ UNCHANGED <<storeVars, factoryVars, formVars>> /\ SaveTick
  \/ UNCHANGED <<storeVars, factoryVars, formVars>> /\ SaveFire
  \/ UNCHANGED <<storeVars, factoryVars, formVars>> /\ CompleteCall
  \/ UNCHANGED <<storeVars, factoryVars, formVars>> /\ RejectCall
  \/ UNCHANGED <<storeVars, factoryVars, formVars>> /\ UnmountHook

NextForm ==
  \/ UNCHANGED <<storeVars, factoryVars, saveVars>> /\
       \E n \in FormNodeIds : FormSelectNode(n)
  \/ UNCHANGED <<storeVars, factoryVars, saveVars>> /\ EditControl
  \/ UNCHANGED <<storeVars, factoryVars, saveVars>> /\ handleAddNewExample
  \/ UNCHANGED <<storeVars, factoryVars, saveVars>> /\
       \E i \in 0..(Len(IndexNames) - 1) : handleDeleteExample(i)
  \/ UNCHANGED <<storeVars, factoryVars, saveVars>> /\
       \E i \in 0..(Len(IndexNames) - 1) : OpenExample(i)
  \/ UNCHANGED <<storeVars, factoryVars, saveVars>> /\ CloseExample
  \/ UNCHANGED <<storeVars, factoryVars, saveVars>> /\ FormDebounceFire

vars == <<storeVars, factoryVars, saveVars, formVars>>

Init == InitStore /\ FactoryOff /\ SaveOff /\ FormOff

\* the editor: the store, the handle rename, the sidebar
Spec == Init /\ [][Next]_vars

\* the node factory
SpecFactory == InitFactory /\ [][NextFactory]_vars

\* the serializer and the debounced save
SpecSave == InitSave /\ [][NextSave]_vars

\* the sidebar's form
SpecForm == InitForm /\ [][NextForm]_vars

(***************************************************************************)
(* Claims about the rename coordinator                                     *)
(***************************************************************************)
EdgeBound(e) ==
  /\ e.sourceHandle \in DOMAIN nodes[e.source].config.output_schema
  /\ e.targetHandle \in DOMAIN nodes[e.target].config.input_schema

\* C1: in every state of the store, the state between the two dispatches of
\* a rename included, every edge references a handle that is a key of its
\* node's current output_schema / input_schema.
C1_EdgesBoundToSchema == \A i \in DOMAIN edges : EdgeBound(edges[i])

\* A placeholder for key, read literally, starts at position i of msg
IsPlaceholderAt(msg, i, key) ==
  /\ i + 1 <= Len(msg) /\ msg[i] = "{" /\ msg[i + 1] = "{"
  /\ LET p == SkipSpaces(msg, i + 2)
         e == p + Len(key)
     IN  /\ e - 1 <= Len(msg)
         /\ SubSeq(msg, p, e - 1) = key
         /\ ClosesAt(msg, e)

PlaceholderCount(msg, key) ==
  Cardinality({ i \in 1..Len(msg) : IsPlaceholderAt(msg, i, key) })

\* every placeholder for old has become one for new
PlaceholdersRenamed(before, after, old, new) ==
  /\ PlaceholderCount(after, old) = 0
  /\ PlaceholderCount(after, new) >=
       PlaceholderCount(before, new) + PlaceholderCount(before, old)

SchemaRenamed(before, after, old, new) ==
  /\ new \in DOMAIN after
  /\ after[new] = before[old]
  /\ old \notin DOMAIN after
  /\ DOMAIN after = (DOMAIN before \cup {new}) \ {old}
  /\ \A k \in DOMAIN before \ {old, new} : after[k] = before[k]

TargetsRepointed(before, after, n, old, new) ==
  /\ DOMAIN after = DOMAIN before
  /\ \A i \in DOMAIN before :
       (before[i].target = n /\ before[i].targetHandle = old)
         => after[i].targetHandle = new

RenameFinishes == ~Idle /\ inflight' = NoCall

\* C2: a rename old -> new on input_schema yields the schema with new in the
\* place of old, both messages with every placeholder for old rewritten to
\* {{new}}, and every edge that targeted old on the node targeting new.
C2_InputRenamePostcondition ==
  [][ (RenameFinishes /\ inflight.schemaType = "input_schema") =>
        LET c0 == inflight.config
            c1 == nodes'[inflight.id].config
        IN  /\ SchemaRenamed(c0.input_schema, c1.input_schema, inflight.old, inflight.new)
            /\ PlaceholdersRenamed(c0.system_message, c1.system_message,
                                   inflight.old, inflight.new)
            /\ PlaceholdersRenamed(c0.user_message, c1.user_message,
                                   inflight.old, inflight.new)
            /\ TargetsRepointed(inflight.edges, edges', inflight.id,
                                inflight.old, inflight.new) ]_vars

RenameCalled ==
  /\ count'.ops = count.ops + 1
  /\ last'.op \in {"renameNoop", "renameConfig"}

\* C3: a rename to the key itself, to the empty string or to a string of
\* whitespace only dispatches nothing and only closes the rename input.
C3_BlankRenameIsNoop ==
  [][ (RenameCalled /\ (last'.typed = last'.old \/ Trim(last'.typed) = EmptyStr)) =>
        /\ nodes' = nodes
        /\ edges' = edges
        /\ inflight' = NoCall
        /\ count'.commits = count.commits
        /\ editingField'[last'.id] = NoField ]_vars

(***************************************************************************)
(* Claims about the sidebar's edit path                                    *)
(***************************************************************************)
SliderEdited == count'.ops = count.ops + 1 /\ last'.op = "slider"

FieldEdited == count'.ops = count.ops + 1 /\ last'.op = "edit"

\* every burst of slider edits has had, or still awaits, exactly one commit
OneCommitPerBurst ==
  count.bursts = count.debounced + (IF pending THEN 1 ELSE 0) + Len(orphans)

\* the sidebar has unmounted with a call waiting in its debounce
LeftWaiting ==
  /\ pending /\ ~pending'
  /\ orphans' = Append(orphans, [id |-> pendingArgs.id,
                                 model |-> pendingArgs.model,
                                 elapsedMs |-> elapsedMs])

\* the debounce of an unmounted sidebar makes its commit
OrphanCommits ==
  \E i \in 1..Len(orphans) :
    /\ orphans' = RemoveAt(orphans, i)
    /\ orphans[i].elapsedMs >= DebounceWaitMs
    /\ nodes' = [nodes EXCEPT ![orphans[i].id].config = orphans[i].model]

\* C4: slider edits made within the debounce window commit nothing when
\* they are made, and produce exactly one updateNodeData commit, issued once
\* the window has passed since the last of them, with the latest value.
C4_SliderEditsCoalesce ==
  /\ []OneCommitPerBurst
  /\ [][ /\ SliderEdited =>
              /\ count'.commits = count.commits
              /\ nodes' = nodes
              /\ pending'
         /\ (count'.commits # count.commits /\ ~FieldEdited /\ Idle /\ Idle') =>
              /\ count'.commits = count.commits + 1
              /\ count'.debounced = count.debounced + 1
              /\ \/ /\ pending /\ ~pending'
                    /\ orphans' = orphans
                    /\ elapsedMs >= DebounceWaitMs
                    /\ nodes' = [nodes EXCEPT ![count.sliderId].config =
                                   nodes'[count.sliderId].config]
                    /\ nodes'[count.sliderId].config.temperature = count.sliderValue
                 \/ pending' = pending /\ OrphanCommits
         /\ (pending /\ nodeID' = NoNode) =>
              /\ LeftWaiting
              /\ pendingArgs.id = count.sliderId
              /\ pendingArgs.model.temperature = count.sliderValue
       ]_vars

\* a debounced commit has just been made for a burst of two or more edits
\* of one node
C4_Witness ==
  /\ last.op = "fire"
  /\ count.burstLen >= 2
  /\ count.burstSame
  /\ count.commits = 1
  /\ nodes[last.id].config.temperature = count.sliderValue
  /\ nodes[last.id].config.temperature # InitNodes[last.id].config.temperature

\* C5: a non-slider edit dispatches its own commit in the same event, and
\* leaves a pending debounced commit as it is; the pending commit is in turn
\* made whatever was committed in between.
C5_FieldEditCommitsAtOnce ==
  [][ /\ FieldEdited =>
           /\ count'.commits = count.commits + 1
           /\ nodes' = [nodes EXCEPT ![nodeID].config =
                          [dynamicModel EXCEPT ![last'.field] = last'.value]]
           /\ pending' = pending
           /\ pendingArgs' = pendingArgs
           /\ elapsedMs' = elapsedMs
      /\ (pending /\ ~pending') =>
           \/ /\ count'.debounced = count.debounced + 1
              /\ nodes'[pendingArgs.id].config = pendingArgs.model
           \/ LeftWaiting
      /\ Len(orphans') < Len(orphans) =>
           /\ count'.debounced = count.debounced + 1
           /\ OrphanCommits
    ]_vars

\* a non-slider edit has just been committed while a slider commit waits
C5_Witness ==
  /\ last.op = "edit"
  /\ pending
  /\ nodes[last.id].config.model = last.value
  /\ nodes[last.id].config.model # InitNodes[last.id].config.model

(***************************************************************************)
(* Claims about the node factory                                           *)
(***************************************************************************)
\* where the catalog holds a template named type: <<category, index>>
Matches(c, type) ==
  { p \in (1..Len(Categories(c))) \X (1..Len(IndexNames)) :
      /\ p[2] <= Len(Categories(c)[p[1]].items)
      /\ TreeGet(Categories(c)[p[1]].items[p[2]], "name") = P(type) }

HasTemplate == Matches(fArgs.catalog, fArgs.type) # {}

\* the first match in category iteration order
FirstTemplate ==
  LET M == Matches(fArgs.catalog, fArgs.type)
      p == CHOOSE x \in M : \A y \in M : x[1] < y[1] \/ (x[1] = y[1] /\ x[2] <= y[2])
  IN  Categories(fArgs.catalog)[p[1]].items[p[2]]

Created == fPhase = "created"

NodeTree == Unload(fHeap, fNode)

DataTree == TreeGet(NodeTree, "data")

InputsUnchanged ==
  /\ Unload(fHeap, fRoots.nodeTypes) = CatalogTree(fArgs.catalog)
  /\ Unload(fHeap, fRoots.additionalData) = fArgs.overrides

PropertiesOf(tree, side) ==
  LET p == TreeGet(TreeGet(tree, side), "properties")
  IN  IF p.t = "o" THEN p.o ELSE NoTree

\* the per-key union, the override's value winning
ExpectedProperties(side) ==
  LET t == PropertiesOf(FirstTemplate, side)
      o == PropertiesOf(fArgs.overrides, side)
  IN  O([k \in DOMAIN t \cup DOMAIN o |-> IF k \in DOMAIN o THEN o[k] ELSE t[k]])

\* C6: for a non-group type found in the catalog and every overrides
\* object, data.input.properties and data.output.properties of the returned
\* node are the per-key union of the template's and the overrides'
\* properties, the override's value winning.
C6_PropertiesAreUnion ==
  (Created /\ fArgs.type # "group" /\ HasTemplate) =>
    \A side \in {"input", "output"} :
      TreeGet(TreeGet(DataTree, side), "properties") = ExpectedProperties(side)

\* C7: createNode changes neither the catalog nor the overrides, and no
\* write to any part of the node it returned changes them either.
C7_InputsNeverChange ==
  fPhase \in {"created", "mutated"} => InputsUnchanged

ExpectedGroupNode ==
  O([id |-> P(fArgs.id),
     type |-> P("group"),
     position |-> PositionTree,
     data |-> O([k \in {"title"} \cup DOMAIN fArgs.overrides.o |->
                   IF k \in DOMAIN fArgs.overrides.o
                   THEN fArgs.overrides.o[k] ELSE P("Group")]),
     style |-> O([width |-> P("300"), height |-> P("300")])])

\* C8: for any catalog, id, position and overrides, the type "group" yields
\* the node {id, type: "group", position, data, style: 300 x 300} whose data
\* is {title: "Group"} with the overrides on top and nothing else.
C8_GroupNodeShape ==
  (Created /\ fArgs.type = "group") => NodeTree = ExpectedGroupNode

\* C9: createNode returns null, leaving everything as it was, exactly when
\* no category holds a template named type; otherwise it returns a node
\* built from the first match in category order.
C9_NullExactlyWhenMissing ==
  Created =>
    /\ fNode = Null <=> ~HasTemplate
    /\ ~HasTemplate =>
         /\ fHeap = InputHeap(fArgs.catalog, fArgs.overrides).heap
         /\ InputsUnchanged
    /\ HasTemplate =>
         /\ fNode.ref # 0
         /\ TreeGet(NodeTree, "type") = P(fArgs.type)
         /\ (fArgs.type # "group" /\ "acronym" \notin DOMAIN fArgs.overrides.o) =>
              TreeGet(DataTree, "acronym") =
                TreeGet(TreeGet(FirstTemplate, "visual_tag"), "acronym")

\* the type is in no category and createNode has returned null
C9_Witness ==
  /\ Created
  /\ ~HasTemplate
  /\ fNode = Null
  /\ fArgs.overrides # O(NoTree)

DefaultOf(field) ==
  CASE field = "title" -> P(fArgs.type)
    [] field = "acronym" -> TreeGet(TreeGet(FirstTemplate, "visual_tag"), "acronym")
    [] field = "color" -> TreeGet(TreeGet(FirstTemplate, "visual_tag"), "color")
    [] OTHER -> TreeGet(FirstTemplate, "config")

\* C10: for a non-group type found in the catalog the node has id, type
\* and position as given, and title, acronym, color and config are the type
\* name, the template's visual tag and a copy of the template's config,
\* each replaced by the overrides' value when the overrides hold one.
C10_NodeFieldsWithOverrides ==
  (Created /\ fArgs.type # "group" /\ HasTemplate) =>
    /\ TreeGet(NodeTree, "id") = P(fArgs.id)
    /\ TreeGet(NodeTree, "type") = P(fArgs.type)
    /\ Get(fHeap, fNode, "position") = fRoots.position
    /\ TreeGet(NodeTree, "position") = PositionTree
    /\ \A f \in {"title", "acronym", "color", "config"} :
         TreeGet(DataTree, f) =
           IF f \in DOMAIN fArgs.overrides.o THEN fArgs.overrides.o[f] ELSE DefaultOf(f)
    /\ Reach(fHeap, Get(fHeap, Get(fHeap, fNode, "data"), "config"))
         \cap (Reach(fHeap, fRoots.nodeTypes) \cup Reach(fHeap, fRoots.additionalData))
         = {}

\* a node of a type found in the catalog, made with overrides that replace
\* the title and the color and leave acronym and config to the template
C10_Witness ==
  /\ Created
  /\ fArgs.type = "LLM"
  /\ fArgs.overrides = O([title |-> P("X"), color |-> P("pink"), meta |-> O([k |-> P("v")])])
  /\ TreeGet(DataTree, "title") = P("X")
  /\ TreeGet(DataTree, "color") = P("pink")
  /\ TreeGet(DataTree, "acronym") = DefaultOf("acronym")
  /\ TreeGet(DataTree, "config") = DefaultOf("config")

(***************************************************************************)
(* Claims about the serializer and the debounced save                      *)
(***************************************************************************)
SaveIssued == saveLog'.issued = saveLog.issued + 1

SaveFired == saveLog'.fired = saveLog.fired + 1

\* C11: in the document sent, an InputNode's config.input_schema has exactly
\* the declared input variables as keys, each mapped to "str", whatever
\* schema the node carried, its other config keys being copied; and every
\* edge yields a link with the edge's source, sourceHandle, target and
\* targetHandle.
C11_InputSchemaAndLinkKeys ==
  [][ SaveIssued =>
        LET def == calls'[Len(calls')].document.definition
        IN  /\ \A i \in 1..Len(flowNodes) :
                 (~IsNullish(flowNodes[i]) /\ TreeGet(flowNodes[i], "type") = P("InputNode")) =>
                   \E j \in 1..Len(def.nodes) :
                     /\ def.nodes[j].id = TreeGet(flowNodes[i], "id")
                     /\ LET cfg == def.nodes[j].config.o
                            own == TreeGet(TreeGet(flowNodes[i], "data"), "config").o
                        IN  /\ DOMAIN cfg.input_schema.o = workflowInputVariables
                            /\ \A k \in workflowInputVariables :
                                 cfg.input_schema.o[k] = P("str")
                            /\ DOMAIN cfg = DOMAIN own \cup {"input_schema"}
                            /\ \A f \in DOMAIN own \ {"input_schema"} : cfg[f] = own[f]
            /\ Len(def.links) = Len(flowEdges)
            /\ \A j \in 1..Len(flowEdges) :
                 /\ def.links[j].source_id = flowEdges[j].source
                 /\ def.links[j].source_output_key = flowEdges[j].sourceHandle
                 /\ def.links[j].target_id = flowEdges[j].target
                 /\ def.links[j].target_input_key = flowEdges[j].targetHandle ]_vars

\* a document has just been sent for a graph with an InputNode that carried
\* the schema {old}, two declared variables and an edge
C11_Witness ==
  /\ saveLog.op = "fire"
  /\ calls # << >>
  /\ workflowInputVariables = {"a", "b"}
  /\ flowNodes[1] = NodeIn
  /\ LET def == calls[Len(calls)].document.definition
     IN  /\ def.nodes[1].config.o.input_schema = O([a |-> P("str"), b |-> P("str")])
         /\ Len(def.links) = 1
         /\ def.links[1].source_output_key = "a"
         /\ def.links[1].target_input_key = "x"

\* the type token the store's node id declares for handle in schema, or
\* "str" when the node or the entry is absent
DeclaredType(id, schema, handle) ==
  LET holders == { i \in 1..Len(flowNodes) :
                     ~IsNullish(flowNodes[i]) /\ TreeGet(flowNodes[i], "id") = P(id) }
  IN  IF holders = {} THEN P("str")
      ELSE LET node == flowNodes[CHOOSE i \in holders : \A k \in holders : i <= k]
               entries == TreeGet(TreeGet(TreeGet(node, "data"), "config"), schema)
           IN  IF entries.t = "o" /\ handle \in DOMAIN entries.o
               THEN entries.o[handle] ELSE P("str")

\* C12: in the document sent, a link's source_output_type is the type token
\* the source node's output schema declares for the edge's sourceHandle and
\* its target_input_type the token the target node's input schema declares
\* for the targetHandle; "str" only when the entry or the node is absent.
C12_LinkTypesFromSchemas ==
  [][ SaveIssued =>
        LET def == calls'[Len(calls')].document.definition
        IN  \A j \in 1..Len(flowEdges) :
              /\ j <= Len(def.links)
              /\ def.links[j].source_output_type =
                   DeclaredType(flowEdges[j].source, "output_schema",
                                flowEdges[j].sourceHandle)
              /\ def.links[j].target_input_type =
                   DeclaredType(flowEdges[j].target, "input_schema",
                                flowEdges[j].targetHandle) ]_vars

NonNullCount(ns) == Cardinality({ i \in 1..Len(ns) : ~IsNullish(ns[i]) })

\* C13: when the save fires for a graph with nodes or edges, null entries
\* or not, the persistence call is made, with one node record per non-null
\* node and one link per edge.
C13_NullEntriesSkipped ==
  [][ (SaveFired /\ HasGraph(flowNodes, flowEdges)) =>
        /\ SaveIssued
        /\ LET def == calls'[Len(calls')].document.definition
           IN  /\ Len(def.nodes) = NonNullCount(flowNodes)
               /\ Len(def.links) = Len(flowEdges) ]_vars

SaveRejected == saveLog'.failed = saveLog.failed + 1

\* C14: a rejected persistence call changes nothing but the call itself:
\* nodes, edges and the pending debounce are as they were and no call is
\* issued in its place; a call is only ever issued by the debounced save
\* firing, which only a change of the graph (or the mount) schedules.
C14_FailedSaveIsolated ==
  [][ /\ SaveRejected =>
           /\ flowNodes' = flowNodes
           /\ flowEdges' = flowEdges
           /\ workflowInputVariables' = workflowInputVariables
           /\ hookMounted' = hookMounted
           /\ savePending' = savePending
           /\ saveElapsedMs' = saveElapsedMs
           /\ backend' = backend
           /\ Len(calls') = Len(calls) - 1
           /\ saveLog'.issued = saveLog.issued
      /\ (Len(calls') > Len(calls) \/ saveLog'.issued # saveLog.issued) =>
           /\ SaveFired
           /\ savePending
           /\ SaveTimerExpired(saveElapsedMs)
           /\ saveLog'.issued = saveLog.issued + 1
           /\ Len(calls') = Len(calls) + 1
      /\ (~savePending /\ savePending') =>
           saveLog'.changes = saveLog.changes + 1
    ]_vars

\* after a failed call a later change of the graph has been accepted and
\* has scheduled the debounced save again
C14_Witness ==
  /\ saveLog.failed >= 1
  /\ saveLog.op = "change"
  /\ savePending
  /\ calls = << >>
  /\ backend = NoSave

SaveChanged == saveLog'.changes = saveLog.changes + 1

CurrentSave == saveWorkflow(flowNodes, flowEdges, workflowInputVariables)

C16_NoCommitAfterTeardown ==
  [][ \A i \in 1..Len(orphans) :
        ~(/\ orphans' = RemoveAt(orphans, i)
          /\ nodes' = updateNodeData(nodes, orphans[i].id, orphans[i].model)) ]_vars


\* a debounced commit of a sidebar, mounted or not, has just been dispatched
DebouncedCommit == count'.debounced = count.debounced + 1

SchemaKeys(ns, n) ==
  [st \in SchemaTypes |-> DOMAIN ns[n].config[st]]

\* C17: a debounced slider commit that fires after a rename of a handle of
\* its node leaves the renamed key in the node's schema, and every edge that
\* referenced a key of its node's schema before the commit still does.
C17_RenameSurvivesSliderCommit ==
  [][ DebouncedCommit =>
        /\ \A n \in NodeIds : SchemaKeys(nodes', n) = SchemaKeys(nodes, n)
        /\ \A i \in DOMAIN edges :
             EdgeBound(edges[i]) =>
               /\ edges'[i].sourceHandle
                    \in DOMAIN nodes'[edges'[i].source].config.output_schema
               /\ edges'[i].targetHandle
                    \in DOMAIN nodes'[edges'[i].target].config.input_schema
    ]_vars


\* the value of every field of every node that a non-slider edit writes
EditedFields(ns) == [n \in NodeIds |-> ns[n].config.model]

\* C18: an edit committed earlier is never reverted by a debounced commit
\* that fires later: the commit leaves every field a non-slider edit has
\* written at its latest value, so that the store holds the latest value of
\* every field once the timers have fired.
C18_LateCommitKeepsEarlierEdit ==
  [][ DebouncedCommit => EditedFields(nodes') = EditedFields(nodes) ]_vars


\* no debounce timer is running and no handler is between its dispatches
Quiescent == Idle /\ ~pending /\ orphans = << >>

\* C19: once the timers have fired, the store holds, for every node that was
\* slider-edited, the latest slider value given to that node, whatever node
\* the sidebar showed in between.
C19_SliderCommitsPerNode ==
  Quiescent =>
    \A n \in NodeIds :
      count.sliderLatest[n] # NoValue =>
        nodes[n].config.temperature = count.sliderLatest[n]


\* C20: persistence calls take effect in the order they were issued: once
\* every call has completed, the backend holds the document of the save
\* issued last.
C20_BackendHoldsLatestSave ==
  (calls = << >> /\ saveLog.issued > 0 /\ saveLog.failed = 0) =>
    backend.seq = saveLog.issued


(***************************************************************************)
(* Claims about renames that collide and about message placeholders        *)
(***************************************************************************)
\* the rename that is finishing gives a key that another entry already has
RenameCollides ==
  /\ RenameFinishes
  /\ inflight.new # inflight.old
  /\ inflight.new \in DOMAIN inflight.config[inflight.schemaType]

\* the edge is bound to handle key of node n on the side schemaType names
BoundTo(e, n, key, schemaType) ==
  IF schemaType = "input_schema"
  THEN e.target = n /\ e.targetHandle = key
  ELSE e.source = n /\ e.sourceHandle = key

\* C21: a rename whose normalised new key is another key of the schema goes
\* through: the schema loses one key, the new key holds the value that was
\* under the old key, the config commit and the edge repointing are both
\* made, and the edges that were bound to the old key and those bound to the
\* colliding key are bound to the same handle.
C21_CollidingRenameOverwrites ==
  [][ RenameCollides =>
        LET st == inflight.schemaType
            s0 == inflight.config[st]
            s1 == nodes'[inflight.id].config[st]
        IN  /\ DOMAIN s1 = DOMAIN s0 \ {inflight.old}
            /\ Cardinality(DOMAIN s1) = Cardinality(DOMAIN s0) - 1
            /\ s1[inflight.new] = s0[inflight.old]
            /\ \A k \in DOMAIN s1 \ {inflight.new} : s1[k] = s0[k]
            /\ nodes[inflight.id].config[st] = s1
            /\ DOMAIN edges' = DOMAIN inflight.edges
            /\ \A i \in DOMAIN inflight.edges :
                 (\/ BoundTo(inflight.edges[i], inflight.id, inflight.old, st)
                  \/ BoundTo(inflight.edges[i], inflight.id, inflight.new, st))
                   => BoundTo(edges'[i], inflight.id, inflight.new, st)
    ]_vars

\* the rename of "a" to "b" on a node whose input_schema has both, with a
\* different type under each and an edge on each, has finished
C21_Witness ==
  /\ Idle
  /\ last.op = "rename"
  /\ last.id = "n1"
  /\ last.old = <<"a">>
  /\ last.new = <<"b">>
  /\ InitNodes["n1"].config.input_schema[<<"a">>]
       # InitNodes["n1"].config.input_schema[<<"b">>]
  /\ nodes["n1"].config.input_schema
       = [k \in {<<"b">>} |-> InitNodes["n1"].config.input_schema[<<"a">>]]
  /\ \A i \in DOMAIN edges : edges[i].targetHandle = <<"b">>


\* the fields of a config that the sidebar edits with the placeholder-aware
\* text editor
PromptFields == {"system_message", "user_message", "task_prompt"}

\* msg from position i on, with every placeholder for exactly old, read
\* literally, written as {{new}} and everything else as it is
RECURSIVE RewriteExactly(_, _, _, _)
RewriteExactly(msg, i, old, new) ==
  IF i > Len(msg) THEN EmptyStr
  ELSE IF IsPlaceholderAt(msg, i, old)
       THEN Placeholder(new) \o
            RewriteExactly(msg,
              SkipSpaces(msg, SkipSpaces(msg, i + 2) + Len(old)) + 2, old, new)
  ELSE <<msg[i]>> \o RewriteExactly(msg, i + 1, old, new)

\* C28: after a rename old -> new on input_schema no placeholder-bearing
\* field of the node (system_message, user_message, keys ending in _prompt)
\* holds a placeholder for old, and nothing but the placeholders for exactly
\* old has been altered; a rename on output_schema leaves these fields as
\* they were.
C28_PlaceholdersFollowRename ==
  [][ RenameFinishes =>
        LET c0 == inflight.config
            c1 == nodes'[inflight.id].config
        IN  \A f \in PromptFields :
              IF inflight.schemaType = "input_schema"
              THEN /\ PlaceholderCount(c1[f], inflight.old) = 0
                   /\ c1[f] = RewriteExactly(c0[f], 1, inflight.old, inflight.new)
              ELSE c1[f] = c0[f]
    ]_vars


(***************************************************************************)
(* Claims about the sidebar's form                                         *)
(***************************************************************************)
\* handleInputChange has just run
InputChanged == formLog'.ops = formLog.ops + 1

\* a control of the form has just been edited
ControlEdited == InputChanged /\ formLog'.op = "edit"

\* the fields of a tree: none of a primitive
TreeFields(tree) == IF tree.t = "o" THEN tree.o ELSE NoTree

\* the tree with the value at the path of names replaced by value, the
\* objects on the way made where there are none
RECURSIVE TreeSet(_, _, _)
TreeSet(tree, names, value) ==
  IF names = << >> THEN value
  ELSE O([f \in DOMAIN TreeFields(tree) \cup {names[1]} |->
            IF f = names[1]
            THEN TreeSet(TreeGet(tree, f), Tail(names), value)
            ELSE TreeFields(tree)[f]])

\* the value at the path of names
RECURSIVE TreeAt(_, _)
TreeAt(tree, names) ==
  IF names = << >> THEN tree ELSE TreeAt(TreeGet(tree, names[1]), Tail(names))

\* the local model, written out
ModelTree == Unload(formHeap, formModel)

\* C22: handleInputChange(key, value), for a plain key and for a dotted
\* path, gives a model that differs from the previous one at that key or
\* path only, where it holds the value, and changes no object that existed
\* before: not the previous model, not a config the store holds.
C22_InputChangeSetsOnePath ==
  [][ InputChanged =>
        LET names == Split(formLog'.key)
            after == Unload(formHeap', formModel')
        IN  /\ after = TreeSet(ModelTree, names, TreeAt(after, names))
            /\ ControlEdited => TreeAt(after, names) = P(NewValue.prim)
            /\ formModel' # formModel
            /\ Unload(formHeap', formModel) = ModelTree
            /\ \A n \in FormNodeIds :
                 Unload(formHeap', formStore[n]) = Unload(formHeap, formStore[n])
            /\ \A a \in 1..Len(formHeap) : formHeap'[a] = formHeap[a]
    ]_vars

\* the slider of the nested field p.t has just been edited: the local model
\* has the new value at p.t and the config in the store its old one
C22_Witness ==
  /\ formLog.op = "edit"
  /\ formLog.key = <<"p", Dot, "t">>
  /\ formNodeID = "A"
  /\ TreeAt(ModelTree, <<"p", "t">>) = P(NewValue.prim)
  /\ TreeAt(ModelTree, <<"p", "s">>) = TreeAt(FormConfig("A"), <<"p", "s">>)
  /\ TreeAt(Unload(formHeap, formStore["A"]), <<"p", "t">>)
       = TreeAt(FormConfig("A"), <<"p", "t">>)


\* the path of a control below the config: its full path without the node
\* type and "config"
ControlPath(control) == SubSeq(Split(control.fullPath), 3,
                               Len(Split(control.fullPath)))

\* the control c has just been edited and the model after it is the model
\* before it with the new value at the control's own path, nothing else
\* created or changed
EditSetsOwnPath(c) ==
  Unload(formHeap', formModel')
    = TreeSet(ModelTree, ControlPath(c), P(NewValue.prim))

\* C23: choosing a value in the select of an enum field, top-level or
\* nested at any depth, sets the value at that field's own path in the local
\* model and in the config committed to the store, and creates or changes
\* no other key or path.
C23_SelectUpdatesItsField ==
  [][ (ControlEdited /\ formLog'.control.widget = "select") =>
        /\ EditSetsOwnPath(formLog'.control)
        /\ Unload(formHeap', formStore'[formNodeID])
             = Unload(formHeap', formModel')
    ]_vars

\* C24: an edit through a text, toggle, free-numeric or slider control
\* rendered for a sub-key of a nested object field changes the value at the
\* full nested path and leaves every other key unchanged, a top-level key
\* of the same name included.
C24_NestedEditUpdatesNestedPath ==
  [][ ( /\ ControlEdited
        /\ formLog'.control.widget
             \in {"textarea", "switch", "number_input", "slider"}
        /\ Len(ControlPath(formLog'.control)) >= 2 ) =>
        EditSetsOwnPath(formLog'.control)
    ]_vars


\* the widget a reserved key name calls for: none for any other key
ReservedWidget(key) ==
  IF key \in {"input_schema", "output_schema"} THEN "schema_editor"
  ELSE IF key \in {"system_message", "user_message"} \/ EndsWithPrompt(key)
  THEN "text_editor"
  ELSE IF key = "code" THEN "code_editor"
  ELSE "none"

\* C25: the widget is chosen by reserved key name before anything else:
\* input_schema and output_schema get the schema editor, system_message,
\* user_message and keys ending in _prompt the rich text editor, code the
\* code editor, whatever the value type and whatever metadata (an enum
\* declaration) there is for the key.
C25_ReservedKeyDecidesWidget ==
  \A c \in formControls :
    ReservedWidget(c.key) # "none" => c.widget = ReservedWidget(c.key)


\* the pairs of a config's few_shot_examples, written out, by index name
ExampleTrees(h, model) ==
  [f \in DOMAIN Examples(h, model) |-> Unload(h, Examples(h, model)[f])]

\* the index names of a list of the given length
IndexNamesUpTo(length) == { IndexNames[j] : j \in 1..length }

\* after is before with one empty pair appended
OnePairAppended(before, after) ==
  LET length == ArrayLength(before)
  IN  /\ DOMAIN after = IndexNamesUpTo(length + 1)
      /\ \A f \in DOMAIN before : after[f] = before[f]
      /\ after[IndexNames[length + 1]] = Example("", "")

\* after is before without the pair at index, counted from 0
OnePairRemoved(before, after, index) ==
  LET length == ArrayLength(before)
  IN  /\ DOMAIN after = IndexNamesUpTo(length - 1)
      /\ \A j \in 1..(length - 1) :
           after[IndexNames[j]]
             = IF j <= index THEN before[IndexNames[j]]
               ELSE before[IndexNames[j + 1]]

\* C26: add-example appends exactly one pair {input: '', output: ''} at the
\* end of the node's few_shot_examples, the pairs before it unchanged and in
\* order, and the edit index becomes the index of the new last pair;
\* delete-example at i removes exactly the pair at i, keeps the order of the
\* others and leaves the edit index unset.
C26_AddAppendsDeleteSplices ==
  [][ LET before == ExampleTrees(formHeap, formStore[formNodeID])
          after == ExampleTrees(formHeap', formStore'[formNodeID])
          local == ExampleTrees(formHeap', formModel')
      IN  /\ (InputChanged /\ formLog'.op = "add") =>
                /\ OnePairAppended(before, after)
                /\ local = after
                /\ fewShotIndex' = ArrayLength(after) - 1
          /\ (InputChanged /\ formLog'.op = "delete") =>
                /\ OnePairRemoved(before, after, formLog'.index)
                /\ local = after
                /\ fewShotIndex' = NoIndex
    ]_vars

\* an empty pair was added after node A's two examples and closed again, and
\* the first example has just been deleted: the second and the empty pair
\* are left, in this order, and no example is open
C26_Witness ==
  /\ formLog.op = "delete"
  /\ formLog.index = 0
  /\ formNodeID = "A"
  /\ ExampleTrees(formHeap, formStore["A"])
       = ("0" :> Example("i1", "o1") @@ "1" :> Example("", ""))
  /\ fewShotIndex = NoIndex


\* C27: the few-shot edit index is always unset or an index into the
\* few_shot_examples of the node the sidebar shows, whatever examples were
\* added, deleted, opened and closed, whatever debounced commit fired and
\* whatever node was selected.
C27_EditIndexInRange ==
  fewShotIndex = NoIndex
    \/ fewShotIndex \in 0..(ArrayLength(ShownExamples) - 1)

====
